---- MODULE Spec2Model ----
(***************************************************************************)
(* A model of reyfetch's Ali/Qwen chat client (src/reyfetch/ritem/rali.py):*)
(* the response extractors, the two stream generators that share one line  *)
(* source, the per-key chat history, chat() and the database record.       *)
(*                                                                         *)
(* Python values.  An optional value (`x | None`) is a sequence of length  *)
(* at most one: None is <<>>, a present value v is <<v>>.  Text is a TLA+   *)
(* string, `+` on text is \o and len() is Len.                             *)
(***************************************************************************)
EXTENDS Integers, Sequences, FiniteSets, TLC

None == <<>>
Some(v) == <<v>>
Val(o) == o[1]

(* Python's `x or ''` on an optional text. *)
OrEmpty(o) == IF o = None THEN "" ELSE Val(o)

(* Python's `x or None` on an optional text: '' and None both give None. *)
OrNone(o) == IF o = None \/ Val(o) = "" THEN None ELSE o

(***************************************************************************)
(* Bounds of the model.                                                    *)
(***************************************************************************)
\* Lines the line source delivers after the seed line before it must end.
MaxLines == 3
\* The latest time the clock reaches.
MaxClock == 2

\* The most records a key of the store holds when an append is made to it.
MaxTurns == 2
\* The most extractor calls made on one response object.
MaxExtracts == 3
\* The most crawl tasks added to the table.
MaxTasks == 2

(***************************************************************************)
(* The decoded JSON object of one data line (or of a whole response).      *)
(*   output    : the object has an 'output' key (with choices[0].message)  *)
(*   content   : output.choices[0].message.content                        *)
(*   reasoning : output.choices[0].message.reasoning_content (optional)   *)
(*   usage     : the 'usage' block (optional)                             *)
(*   search    : output.search_info.search_results (optional)             *)
(***************************************************************************)
UsageBlocks ==
    { [total_tokens |-> 3, input_tokens |-> 1, output_tokens |-> 2, reasoning_tokens |-> None],
      [total_tokens |-> 7, input_tokens |-> 1, output_tokens |-> 6, reasoning_tokens |-> Some(4)] }

SearchItems ==
    { [site_name |-> Some("s"), icon |-> Some(""), index |-> 1, url |-> "u", title |-> "t"],
      [site_name |-> None, icon |-> Some("i"), index |-> 2, url |-> "v", title |-> "w"] }

SearchLists == { <<>> } \cup { <<it>> : it \in SearchItems }

Fragments == { "", "a", "b" }
Reasonings == { None, Some(""), Some("r") }

JsonWithOutput ==
    [ output : {TRUE}, content : Fragments, reasoning : Reasonings,
      usage : {None} \cup { Some(u) : u \in UsageBlocks },
      search : {None} \cup { Some(l) : l \in SearchLists } ]

JsonWithoutOutput ==
    [ output : {FALSE}, content : {""}, reasoning : {None},
      usage : {None} \cup { Some(u) : u \in UsageBlocks },
      search : {None} ]

Jsons == JsonWithOutput \cup JsonWithoutOutput

(* A line of the source: a data line ('data:{' or 'data: {' prefix) with its
   JSON object, or any other line, which the client skips. *)
NoJson == [ output |-> FALSE, content |-> "", reasoning |-> None, usage |-> None, search |-> None ]
NonData == [ data |-> FALSE, json |-> NoJson ]
DataLines == { [ data |-> TRUE, json |-> j ] : j \in Jsons }
Lines == DataLines \cup { NonData }

(***************************************************************************)
(* Results of a step that may raise: err is "" when it returned.           *)
(***************************************************************************)
Ok(v) == [ err |-> "", val |-> v ]
Raise(e) == [ err |-> e, val |-> None ]

(***************************************************************************)
(* The extractors.                                                         *)
(***************************************************************************)
extract_response_text(response_json) ==
    IF response_json.output THEN Some(response_json.content) ELSE None

extract_response_token(response_json) ==
    IF response_json.usage = None
    THEN None
    ELSE LET token_data == Val(response_json.usage)
         IN  Some([ total |-> token_data.total_tokens,
                    input |-> token_data.input_tokens,
                    output |-> token_data.output_tokens,
                    output_think |-> token_data.reasoning_tokens ])

(* The body of extract_response_web's loop on one item of search_results, a
   dict (a function on its keys): the dict it leaves, which is the very
   object the list returned holds.  'site_name' and 'icon' get None when
   absent, 'site_name' is popped into 'site', '' becomes None in both. *)
WebItem(item) ==
    LET site_name == IF "site_name" \in DOMAIN item THEN item["site_name"] ELSE None
        icon == IF "icon" \in DOMAIN item THEN item["icon"] ELSE None
    IN  [ k \in (DOMAIN item \ { "site_name" }) \cup { "site", "icon" } |->
            CASE k = "site" -> OrNone(site_name)
              [] k = "icon" -> OrNone(icon)
              [] OTHER -> item[k] ]

extract_response_web(response_json) ==
    IF ~response_json.output
    THEN Raise("KeyError")
    ELSE LET web_data == IF response_json.search = None THEN <<>> ELSE Val(response_json.search)
             items == [ i \in 1..Len(web_data) |-> WebItem(web_data[i]) ]
         IN  Ok(IF items = <<>> THEN None ELSE Some(items))

(* The response object as extract_response_web leaves it: the items of
   search_results are the dicts the loop has worked on. *)
extract_response_web_leaves(response_json) ==
    IF ~response_json.output \/ response_json.search = None
    THEN response_json
    ELSE [ response_json EXCEPT
             !.search = Some([ i \in 1..Len(Val(@)) |-> WebItem(Val(@)[i]) ]) ]

extract_response_think(response_json) ==
    IF ~response_json.output
    THEN Raise("KeyError")
    ELSE Ok(OrNone(response_json.reasoning))

(* The reply record of a response; obj names the Python object (0: an object
   nothing else refers to). *)
extract_response_record(response_json, time, obj) ==
    LET response_text == extract_response_text(response_json)
        response_token == extract_response_token(response_json)
        response_web == extract_response_web(response_json)
        response_think == extract_response_think(response_json)
    IN  IF response_web.err # "" THEN Raise(response_web.err)
        ELSE IF response_think.err # "" THEN Raise(response_think.err)
        ELSE Ok([ time |-> time,
                  role |-> "assistant",
                  content |-> response_text,
                  len |-> IF response_text = None THEN None ELSE Some(Len(Val(response_text))),
                  token |-> response_token,
                  web |-> response_web.val,
                  think |-> response_think.val,
                  obj |-> obj ])

(***************************************************************************)
(* The state of one FetchRequestAliQwen session.                           *)
(***************************************************************************)
\* Conversation keys (`index`) and the chat() invocations of one run.
Keys == { "A", "B" }
Calls == { 1, 2 }

VARIABLES
    system,             \* self.system
    history_max_char,   \* self.history_max_char
    history_max_time,   \* self.history_max_time
    data,               \* self.data: key -> list of chat records
    db_record,          \* self.db_record: the row under construction
    sink,               \* rows of table ali_qwen, each with the call that inserted it
    sent,               \* request bodies handed to the transport
    clock,              \* now()
    calls,              \* per streaming chat(): the closure of extract_response_generator
    chat_ret,           \* what the last chat() gave its caller
    pull_ret,           \* what the last next() on a generator gave its caller
    hist_ret,           \* the call on the history store just made, and what it gave
    seen,               \* per call, what its line source has delivered so far
    rand,               \* self.rand, in hundredths (None: no session has been built)
    init_ret,           \* what the last FetchRequestAliQwen(...) gave its caller
    response,           \* a decoded response object the caller holds (None: none)
    extracts,           \* what the extractors called on it have returned, in order
    tasks,              \* table crawl_browser_page: the row of id i is tasks[i]
    pollers,            \* per FetchCrawlBrowser with a database: where its loop stands
    waiter              \* the caller of wait_db_crawl_task: where its loop stands

cfgVars == << system, history_max_char, history_max_time, rand, init_ret, response, extracts,
              tasks, pollers, waiter >>
vars == << system, history_max_char, history_max_time, data, db_record, sink, sent,
           clock, calls, chat_ret, pull_ret, hist_ret, seen, rand, init_ret, response,
           extracts, tasks, pollers, waiter >>

\* What the operations of rbrowser.py leave alone, the clock apart.
aliVars == << system, history_max_char, history_max_time, data, db_record, sink, sent,
              calls, chat_ret, pull_ret, hist_ret, seen, rand, init_ret, response, extracts >>

NoRecord ==
    [ time |-> 0, role |-> "assistant", content |-> None, len |-> None, token |-> None,
      web |-> None, think |-> None, obj |-> 0 ]

(* The closure of one extract_response_generator call and its two generators.
   pc is where a generator stands: "created" (not started), "first" (suspended
   at the first yield), "loop" (suspended at a yield inside the for loop),
   "closed".  made: the chat() invocation has been made; live: it gave its
   caller the generators.  running names the generator that is inside a next() call and
   waits for the next line of response_iter. *)
NoCall ==
    [ made |-> FALSE, live |-> FALSE, think |-> FALSE, index |-> None, chat_record_reply |-> NoRecord,
      is_think_emptied |-> FALSE,
      pc |-> [ text |-> "created", think |-> "created" ],
      running |-> "none", exhausted |-> FALSE, consumed |-> 0 ]

EmptyRow ==
    [ messages |-> None, model |-> None, request_time |-> None, response_time |-> None,
      reply |-> None, think |-> None, web |-> None, token_total |-> None,
      token_input |-> None, token_output |-> None, token_output_think |-> None ]

(* No chat() has been made.  Otherwise: the invocation, the error it raised
   ("" when it returned), the kind of value returned, its arguments a, and
   what the transport did (source: the kind of response, a line source being
   "data" when it has a data line and "nodata" when it ends without one). *)
NoArgs ==
    [ text |-> "", index |-> None, system |-> None, web |-> FALSE, web_mark |-> FALSE,
      think |-> FALSE, stream |-> FALSE, history_max_char |-> None, history_max_time |-> None ]

NoRet == [ call |-> 0, err |-> "", kind |-> "none", a |-> NoArgs, source |-> "" ]
NoPull == [ call |-> 0, mode |-> "none", kind |-> "none", val |-> "", err |-> "" ]

(* No call on the history store has just been made.  Otherwise: op ("append",
   "get", or "chat" for a chat() with a key), the key, the limits and the
   delete flag as passed, the clock at the call, how many records the key
   held before it, the records passed (append) and the list returned (get). *)
NoHist ==
    [ op |-> "none", index |-> "", max_char |-> None, max_time |-> None, delete |-> FALSE,
      now |-> 0, before |-> 0, records |-> << >>, ret |-> << >> ]

(* Observations on the line source of a call, kept to state properties:
   seed, seed_think: the reply text and the reasoning text of the first data
   line; usage: the last usage block that was not absent, over all data lines
   read; late: a data line with citations was read after citations had been
   captured; end: how each generator reached its end ("break", "else", or the
   error raised; "" while it has not); text: for a call with a key, the reply
   text of all data lines read so far, the first included; pulled_at: for a
   call without key, the time at which the last line was taken from the
   source; yielded: for a call with a key, the elements each generator has
   yielded so far, joined. *)
NoSeen ==
    [ seed |-> None, seed_think |-> None, usage |-> None, late |-> FALSE,
      request_time |-> None, end |-> [ text |-> "", think |-> "" ], text |-> "",
      pulled_at |-> 0, yielded |-> [ text |-> "", think |-> "" ] ]

model == "qwen-turbo-latest"

(***************************************************************************)
(* The randomness of the session.  rand, a float in the source, is counted *)
(* in hundredths: 0 is 0.0, 50 the default 0.5, 100 is 1.0; temperature    *)
(* and presence_penalty are in hundredths too (199 is 1.99, 200 is 2).     *)
(***************************************************************************)
NoInit == [ made |-> FALSE, err |-> "", rand |-> 0 ]

(* The check of rand with both bounds excluded. *)
rand_check_open(r) == 0 < r /\ r < 100

(* __init__'s '# Check.': 0 <= rand <= 1. *)
rand_check(r) == 0 <= r /\ r <= 100

(* The temperature without the remap of 2. *)
request_temperature_unmapped(r) == r * 2

(* request(): json_params['temperature'] *)
request_temperature(r) ==
    LET json_params_temperature == r * 2
    IN  IF json_params_temperature = 200 THEN 199 ELSE json_params_temperature

(* request(): json_params['presence_penalty'] *)
request_presence_penalty(r) == r * 4 - 200

(***************************************************************************)
(* insert_db: copies the reply record into db_record and records the row.  *)
(* record['token'] is subscripted, which raises TypeError on None, after   *)
(* reply, think and web have been stored.                                  *)
(***************************************************************************)
insert_db(db, record) ==
    LET db1 == [ db EXCEPT !.reply = record.content, !.think = record.think,
                           !.web = record.web ]
    IN  IF record.token = None
        THEN [ err |-> "TypeError", db |-> db1, rows |-> <<>> ]
        ELSE LET db2 == [ db1 EXCEPT !.token_total = Some(Val(record.token).total),
                                     !.token_input = Some(Val(record.token).input),
                                     !.token_output = Some(Val(record.token).output),
                                     !.token_output_think = Val(record.token).output_think ]
             IN  [ err |-> "", db |-> db2, rows |-> << db2 >> ]

(* FetchRequestDatabaseRecord.record(): the row held by db_record is inserted
   into the table. *)
db_record_record(table, rows, by) ==
    table \o [ i \in 1..Len(rows) |-> [ by |-> by, row |-> rows[i] ] ]

(***************************************************************************)
(* The history store.                                                      *)
(***************************************************************************)
(* The list stored for a key, empty when the key is absent. *)
Stored(d, index) == IF index \in DOMAIN d THEN d[index] ELSE << >>

(* self.data.setdefault(index, []) *)
setdefault(d, index) ==
    IF index \in DOMAIN d THEN d
    ELSE [ k \in DOMAIN d \cup {index} |-> IF k = index THEN <<>> ELSE d[k] ]

(* beyond_scan breaking as soon as the running sum reaches the limit. *)
RECURSIVE beyond_scan_reach(_, _, _, _, _, _)
beyond_scan_reach(history, i, char_len, max_char, max_time, now_timestamp) ==
    IF i >= Len(history) THEN None
    ELSE LET chat_record == history[Len(history) - i]
             char_len1 == IF max_char # None THEN char_len + Val(chat_record.len) ELSE char_len
         IN  IF \/ (max_char # None /\ char_len1 >= Val(max_char))
                \/ (max_time # None /\ now_timestamp - chat_record.time > Val(max_time) * 1000)
             THEN Some(i)
             ELSE beyond_scan_reach(history, i + 1, char_len1, max_char, max_time, now_timestamp)

(* beyond_scan with the age compared to max_time taken as it is. *)
RECURSIVE beyond_scan_seconds(_, _, _, _, _, _)
beyond_scan_seconds(history, i, char_len, max_char, max_time, now_timestamp) ==
    IF i >= Len(history) THEN None
    ELSE LET chat_record == history[Len(history) - i]
             char_len1 == IF max_char # None THEN char_len + Val(chat_record.len) ELSE char_len
         IN  IF \/ (max_char # None /\ char_len1 > Val(max_char))
                \/ (max_time # None /\ now_timestamp - chat_record.time > Val(max_time) * 1000 * 1000)
             THEN Some(i)
             ELSE beyond_scan_seconds(history, i + 1, char_len1, max_char, max_time, now_timestamp)

(* The for loop of get_chat_records_history over the reversed list: i is the
   0-based position in the reversed list, char_len the running sum.  Gives
   the position of the first record beyond a limit (beyond_index is its
   negation), or None when the loop ends without a break. *)
RECURSIVE beyond_scan(_, _, _, _, _, _)
beyond_scan(history, i, char_len, max_char, max_time, now_timestamp) ==
    IF i >= Len(history) THEN None
    ELSE LET chat_record == history[Len(history) - i]
             char_len1 == IF max_char # None THEN char_len + Val(chat_record.len) ELSE char_len
         IN  IF \/ (max_char # None /\ char_len1 > Val(max_char))
                \/ (max_time # None /\ now_timestamp - chat_record.time > Val(max_time) * 1000)
             THEN Some(i)
             ELSE beyond_scan(history, i + 1, char_len1, max_char, max_time, now_timestamp)

(* The last n elements of a list: history[-n:] for n > 0. *)
LastN(history, n) ==
    [ j \in 1..n |-> history[Len(history) - n + j] ]

(* get_chat_records_history deleting from the stored list whatever the delete
   flag is. *)
get_chat_records_history_always_delete(d, index, max_char_arg, max_time_arg, delete, now_timestamp) ==
    LET d1 == setdefault(d, index)
        chat_records_history == d1[index]
        max_char == IF max_char_arg = None THEN history_max_char ELSE max_char_arg
        max_time == IF max_time_arg = None THEN history_max_time ELSE max_time_arg
        beyond == beyond_scan(chat_records_history, 0, 0, max_char, max_time, now_timestamp)
        kept == IF beyond = None THEN chat_records_history
                ELSE IF Val(beyond) = 0 THEN <<>>
                ELSE LastN(chat_records_history, Val(beyond))
    IN  IF beyond # None
        THEN [ data |-> [ d1 EXCEPT ![index] = kept ], ret |-> kept, stored |-> TRUE ]
        ELSE [ data |-> d1, ret |-> kept, stored |-> beyond = None ]

(* get_chat_records_history with `history_max_char or self.history_max_char`
   and the same for history_max_time: a limit of 0 counts as omitted. *)
get_chat_records_history_falsy(d, index, max_char_arg, max_time_arg, delete, now_timestamp) ==
    LET d1 == setdefault(d, index)
        chat_records_history == d1[index]
        max_char == IF max_char_arg \in { None, Some(0) } THEN history_max_char ELSE max_char_arg
        max_time == IF max_time_arg \in { None, Some(0) } THEN history_max_time ELSE max_time_arg
        beyond == beyond_scan(chat_records_history, 0, 0, max_char, max_time, now_timestamp)
        kept == IF beyond = None THEN chat_records_history
                ELSE IF Val(beyond) = 0 THEN <<>>
                ELSE LastN(chat_records_history, Val(beyond))
    IN  IF beyond # None /\ delete
        THEN [ data |-> [ d1 EXCEPT ![index] = kept ], ret |-> kept, stored |-> TRUE ]
        ELSE [ data |-> d1, ret |-> kept, stored |-> beyond = None ]

(* get_chat_records_history: the store after the call and the list returned.
   stored tells whether the list returned is the stored list object itself. *)
get_chat_records_history(d, index, max_char_arg, max_time_arg, delete, now_timestamp) ==
    LET d1 == setdefault(d, index)
        chat_records_history == d1[index]
        max_char == IF max_char_arg = None THEN history_max_char ELSE max_char_arg
        max_time == IF max_time_arg = None THEN history_max_time ELSE max_time_arg
        beyond == beyond_scan(chat_records_history, 0, 0, max_char, max_time, now_timestamp)
        kept == IF beyond = None THEN chat_records_history
                ELSE IF Val(beyond) = 0 THEN <<>>
                ELSE LastN(chat_records_history, Val(beyond))
    IN  IF beyond # None /\ delete
        THEN [ data |-> [ d1 EXCEPT ![index] = kept ], ret |-> kept, stored |-> TRUE ]
        ELSE [ data |-> d1, ret |-> kept, stored |-> beyond = None ]

(***************************************************************************)
(* append_chat_records_history.  The records argument is                   *)
(*   [kind |-> "str", str |-> s]      a bare string                        *)
(*   [kind |-> "dict", dict |-> d]    one record; d.time and d.role are    *)
(*                                    optional, d.content is a string      *)
(*   [kind |-> "list", list |-> l]    a list of strings                    *)
(* (every field is present in each, the unused ones empty).                *)
(***************************************************************************)
NoDict == [ time |-> None, role |-> None, content |-> "" ]
RecordsStr(s) == [ kind |-> "str", str |-> s, dict |-> NoDict, list |-> << >> ]
RecordsDict(d) == [ kind |-> "dict", str |-> "", dict |-> d, list |-> << >> ]
RecordsList(l) == [ kind |-> "list", str |-> "", dict |-> NoDict, list |-> l ]

(* A Python list of strings held as the content of a record: the list value
   itself, written so that it differs from every string and from every
   other list. *)
RECURSIVE ListItems(_)
ListItems(l) ==
    IF l = << >> THEN ""
    ELSE IF Len(l) = 1 THEN "'" \o l[1] \o "'"
    ELSE "'" \o l[1] \o "', " \o ListItems(Tail(l))

ListValue(l) == "[" \o ListItems(l) \o "]"

(* The '# Parameter.' dispatch on type(records): the list of dicts the
   records are built from, each with what len(record['content']) gives.  In
   the list branch every string element becomes {'content': records}, the
   list itself. *)
records_dicts(records) ==
    CASE records.kind = "str" ->
            << [ time |-> None, role |-> None, content |-> records.str, len |-> Len(records.str) ] >>
      [] records.kind = "dict" ->
            << [ time |-> records.dict.time, role |-> records.dict.role,
                 content |-> records.dict.content, len |-> Len(records.dict.content) ] >>
      [] OTHER ->
            [ i \in 1..Len(records.list) |->
                [ time |-> None, role |-> None, content |-> ListValue(records.list),
                  len |-> Len(records.list) ] ]

(* chat_record_of with the time defaulted to 0 instead of the clock. *)
chat_record_of_epoch(record, now_timestamp) ==
    [ time |-> IF record.time = None THEN 0 ELSE Val(record.time),
      role |-> IF record.role = None THEN "user" ELSE Val(record.role),
      content |-> Some(record.content), len |-> Some(record.len),
      token |-> None, web |-> None, think |-> None, obj |-> 0 ]

(* The chat record built from one dict. *)
chat_record_of(record, now_timestamp) ==
    [ time |-> IF record.time = None THEN now_timestamp ELSE Val(record.time),
      role |-> IF record.role = None THEN "user" ELSE Val(record.role),
      content |-> Some(record.content), len |-> Some(record.len),
      token |-> None, web |-> None, think |-> None, obj |-> 0 ]

(* list.sort(key=time): stable, ascending. *)
sort_insert(sorted, chat_record) ==
    LET n == Cardinality({ i \in 1..Len(sorted) : sorted[i].time <= chat_record.time })
    IN  SubSeq(sorted, 1, n) \o << chat_record >> \o SubSeq(sorted, n + 1, Len(sorted))

RECURSIVE sort(_)
sort(chat_records) ==
    IF chat_records = << >> THEN << >>
    ELSE sort_insert(sort(SubSeq(chat_records, 1, Len(chat_records) - 1)),
                     chat_records[Len(chat_records)])

(* The store after append_chat_records_history. *)
append_chat_records_history(d, records, index, max_char_arg, max_time_arg, now_timestamp) ==
    LET dicts == records_dicts(records)
        new == [ i \in 1..Len(dicts) |-> chat_record_of(dicts[i], now_timestamp) ]
        d1 == setdefault(d, index)
        d2 == [ d1 EXCEPT ![index] = sort(@ \o new) ]
    IN  get_chat_records_history(d2, index, max_char_arg, max_time_arg, TRUE, now_timestamp).data

(***************************************************************************)
(* chat().  a holds the arguments, resp what the transport does with the   *)
(* request:                                                                *)
(*   resp.kind  "error": reykit_request raises; "bad": request() rejects   *)
(*              the body (not JSON, or an error code); "json": a decoded   *)
(*              body; "lines": a line source                               *)
(*   resp.dt    the time the request takes                                 *)
(*   resp.seed  the first data line of the line source, the lines before   *)
(*              it being skipped (None: the source ends without one)       *)
(* The result is the state chat() leaves and what it gives its caller.     *)
(***************************************************************************)
Message(chat_record) == [ role |-> chat_record.role, content |-> chat_record.content ]

UserRecord(text, time) ==
    [ time |-> time, role |-> "user", content |-> Some(text), len |-> Some(Len(text)),
      token |-> None, web |-> None, think |-> None, obj |-> 0 ]

SystemRecord(text, time) ==
    [ time |-> time, role |-> "system", content |-> Some(text), len |-> Some(Len(text)),
      token |-> None, web |-> None, think |-> None, obj |-> 0 ]

Unchanged(c, err) ==
    [ data |-> data, db_record |-> db_record, sink |-> sink, sent |-> sent, clock |-> clock,
      call |-> [ calls[c] EXCEPT !.made = TRUE ],
      ret |-> [ call |-> c, err |-> err, kind |-> "raise" ] ]

(* The message list with the history put before the system message. *)
chat_messages_history_first(chat_records_role, chat_records_history, chat_record_now) ==
    LET messages == chat_records_history \o chat_records_role \o << chat_record_now >>
    IN  [ i \in 1..Len(messages) |-> Message(messages[i]) ]

(* messages: role, history and the new record, as role and content. *)
chat_messages(chat_records_role, chat_records_history, chat_record_now) ==
    LET messages == chat_records_role \o chat_records_history \o << chat_record_now >>
    IN  [ i \in 1..Len(messages) |-> Message(messages[i]) ]

(* The history read under a key of its own when the call has none. *)
chat_history_keyless_reads(a) ==
    get_chat_records_history(data, IF a.index # None THEN Val(a.index) ELSE "A",
                             a.history_max_char, a.history_max_time, TRUE, clock)

(* chat_records_history: the trimmed history of the key, empty without a key. *)
chat_history(a) ==
    IF a.index # None
    THEN get_chat_records_history(data, Val(a.index), a.history_max_char,
                                  a.history_max_time, TRUE, clock)
    ELSE [ data |-> data, ret |-> <<>>, stored |-> FALSE ]

(* chat_raise inserting the row under construction before it raises. *)
chat_raise_partial_row(c, a, d, db, sent1, now, err) ==
    [ data |-> d, db_record |-> db, sink |-> db_record_record(sink, << db >>, c),
      sent |-> sent1, clock |-> now, call |-> [ calls[c] EXCEPT !.made = TRUE ],
      ret |-> [ call |-> c, err |-> err, kind |-> "raise" ] ]

(* chat_raise returning to the caller instead of raising. *)
chat_raise_returns(c, a, d, db, sent1, now, err) ==
    [ data |-> d, db_record |-> db, sink |-> sink,
      sent |-> sent1, clock |-> now, call |-> [ calls[c] EXCEPT !.made = TRUE ],
      ret |-> [ call |-> c, err |-> "", kind |-> "stream" ] ]

(* chat_raise with the user record appended before the request is made. *)
chat_raise_user_recorded(c, a, d, db, sent1, now, err) ==
    [ data |-> IF a.index # None
               THEN [ d EXCEPT ![Val(a.index)] = Append(@, UserRecord(a.text, clock)) ]
               ELSE d,
      db_record |-> db, sink |-> sink,
      sent |-> sent1, clock |-> now, call |-> [ calls[c] EXCEPT !.made = TRUE ],
      ret |-> [ call |-> c, err |-> err, kind |-> "raise" ] ]

(* What chat() leaves when the request or the extraction raises: the history
   as read (d), the fields of db_record set so far (db), the request made
   (sent1); nothing is appended to the history and no row is inserted, both
   being done after the extraction. *)
chat_raise(c, a, d, db, sent1, now, err) ==
    [ data |-> d, db_record |-> db, sink |-> sink,
      sent |-> sent1, clock |-> now, call |-> [ calls[c] EXCEPT !.made = TRUE ],
      ret |-> [ call |-> c, err |-> err, kind |-> "raise" ] ]

(* chat_history_append appending the reply before the user record. *)
chat_history_append_reply_first(d, index, chat_record_now, chat_record_reply) ==
    IF index # None
    THEN [ d EXCEPT ![Val(index)] = @ \o << chat_record_reply, chat_record_now >> ]
    ELSE d

(* '# Record.': with a key, the user record and the reply record are appended
   to the list of the key. *)
chat_history_append(d, index, chat_record_now, chat_record_reply) ==
    IF index # None
    THEN [ d EXCEPT ![Val(index)] = @ \o << chat_record_now, chat_record_reply >> ]
    ELSE d

(* chat() from '# Parameter.' on: the arguments have passed the check. *)
chat_request(c, a, resp) ==
    LET system1 == IF a.system # None /\ system # None
                   THEN Some(Val(system) \o Val(a.system))
                   ELSE IF a.system = None THEN system ELSE a.system
        got == chat_history(a)
        chat_records_history == got.ret
        chat_records_role == IF system1 # None THEN << SystemRecord(Val(system1), clock) >>
                             ELSE <<>>
        chat_record_now == UserRecord(a.text, clock)
        messages == chat_messages(chat_records_role, chat_records_history, chat_record_now)
        json == [ messages |-> messages, enable_search |-> a.web,
                  enable_citation |-> a.web /\ a.web_mark,
                  enable_thinking |-> a.think, stream |-> a.stream,
                  temperature |-> request_temperature(Val(rand)),
                  presence_penalty |-> request_presence_penalty(Val(rand)) ]
        db1 == [ db_record EXCEPT !.messages = Some(messages), !.model = Some(model),
                                  !.request_time = Some(clock) ]
        sent1 == Append(sent, json)
        now1 == clock + resp.dt
        db2 == [ db1 EXCEPT !.response_time = Some(now1) ]
        failed(err, db, now) == chat_raise(c, a, got.data, db, sent1, now, err)
        appended(chat_record_reply) ==
            chat_history_append(got.data, a.index, chat_record_now, chat_record_reply)
    IN  IF resp.kind = "error" THEN failed("TransportError", db1, clock)
        ELSE IF resp.kind = "bad" THEN failed("AssertionError", db1, now1)
        ELSE IF a.stream
        THEN IF resp.seed = None THEN failed("AssertionError", db2, now1)
             ELSE
             LET first == extract_response_record(Val(resp.seed).json, now1, c)
             IN  IF first.err # "" THEN failed(first.err, db2, now1)
                 ELSE [ data |-> appended(first.val), db_record |-> db2, sink |-> sink,
                        sent |-> sent1, clock |-> now1,
                        call |-> [ made |-> TRUE, live |-> TRUE, think |-> a.think, index |-> a.index,
                                   chat_record_reply |-> first.val,
                                   is_think_emptied |-> first.val.think = None,
                                   pc |-> [ text |-> "created", think |-> "created" ],
                                   running |-> "none", exhausted |-> FALSE, consumed |-> 0 ],
                        ret |-> [ call |-> c, err |-> "", kind |-> "stream" ] ]
        ELSE
             LET reply == extract_response_record(resp.json, now1, 0)
             IN  IF reply.err # "" THEN failed(reply.err, db2, now1)
                 ELSE LET ins == insert_db(db2, reply.val)
                      IN  [ data |-> appended(reply.val), db_record |-> ins.db,
                            sink |-> db_record_record(sink, ins.rows, c), sent |-> sent1,
                            clock |-> now1, call |-> [ calls[c] EXCEPT !.made = TRUE ],
                            ret |-> IF ins.err # ""
                                    THEN [ call |-> c, err |-> ins.err, kind |-> "raise" ]
                                    ELSE [ call |-> c, err |-> "", kind |-> "record" ] ]

(* chat() without its '# Check.' part. *)
chat_unchecked(c, a, resp) == chat_request(c, a, resp)

chat(c, a, resp) ==
    IF a.text = "" \/ (a.think /\ ~a.stream)
    THEN Unchanged(c, "ValueError")
    ELSE chat_request(c, a, resp)

(***************************************************************************)
(* _generator(mode), the body shared by generator_text and generator_think.*)
(* g is the closure of the call (chat_record_reply, is_think_emptied, the  *)
(* position of both generators and of response_iter).  A step gives the    *)
(* closure after it, what the generator does (out: "yield", "continue",    *)
(* "break", "stop" or "raise"), db_record after it and the rows inserted.  *)
(***************************************************************************)
Step(g, out, val, err) ==
    [ g |-> g, out |-> out, val |-> val, err |-> err, db |-> db_record, rows |-> << >> ]

(* generator_first without its '# Check.' part. *)
generator_first_unchecked(g, mode) ==
    LET r == g.chat_record_reply
        r1 == [ r EXCEPT !.content = Some(OrEmpty(r.content)),
                         !.think = Some(OrEmpty(r.think)) ]
        g1 == [ g EXCEPT !.chat_record_reply = r1 ]
    IN  Step([ g1 EXCEPT !.pc[mode] = "first" ], "yield",
             IF mode = "text" THEN Val(r1.content) ELSE Val(r1.think), "")

(* From the start of the body to the first yield. *)
generator_first(g, mode) ==
    LET r == g.chat_record_reply
        r1 == [ r EXCEPT !.content = Some(OrEmpty(r.content)),
                         !.think = Some(OrEmpty(r.think)) ]
        g1 == [ g EXCEPT !.chat_record_reply = r1 ]
    IN  IF ~g.is_think_emptied /\ mode = "text"
        THEN Step([ g1 EXCEPT !.pc[mode] = "closed" ], "raise", "", "AssertionError")
        ELSE Step([ g1 EXCEPT !.pc[mode] = "first" ], "yield",
                  IF mode = "text" THEN Val(r1.content) ELSE Val(r1.think), "")

(* generator_token_web storing the citations of every chunk. *)
generator_token_web_every(g, response_json) ==
    LET g1 == [ g EXCEPT !.chat_record_reply.token = extract_response_token(response_json) ]
        response_web == extract_response_web(response_json)
    IN  IF response_web.err # "" THEN [ err |-> response_web.err, val |-> g1 ]
        ELSE Ok([ g1 EXCEPT !.chat_record_reply.web = response_web.val ])

(* The '## Token.' and '## Web.' parts of the loop body. *)
generator_token_web(g, response_json) ==
    LET g1 == [ g EXCEPT !.chat_record_reply.token = extract_response_token(response_json) ]
        response_web == extract_response_web(response_json)
    IN  IF g1.chat_record_reply.web # None THEN Ok(g1)
        ELSE IF response_web.err # "" THEN [ err |-> response_web.err, val |-> g1 ]
        ELSE Ok([ g1 EXCEPT !.chat_record_reply.web = response_web.val ])

(* The '## Text.' branch of the loop body. *)
generator_text_branch(g, response_json) ==
    LET r == g.chat_record_reply
        response_text == extract_response_text(response_json)
    IN  IF response_text = None
        THEN Step(g, "continue", "", "")
        ELSE IF r.len = None
        THEN Step([ g EXCEPT !.chat_record_reply.content = Some(Val(r.content) \o Val(response_text)),
                             !.pc.text = "closed" ],
                  "raise", "", "TypeError")
        ELSE Step([ g EXCEPT !.chat_record_reply.content = Some(Val(r.content) \o Val(response_text)),
                             !.chat_record_reply.len = Some(Val(r.len) + Len(Val(response_text))),
                             !.pc.text = "loop" ],
                  "yield", Val(response_text), "")

(* The '## Think.' branch of the loop body. *)
generator_think_branch(g, response_json) ==
    LET r == g.chat_record_reply
        response_think == extract_response_think(response_json)
        response_text == extract_response_text(response_json)
    IN  IF response_think.err # ""
        THEN Step([ g EXCEPT !.pc.think = "closed" ], "raise", "", response_think.err)
        ELSE IF response_think.val = None
        THEN IF response_text # None /\ r.len = None
             THEN Step([ g EXCEPT !.is_think_emptied = TRUE,
                                  !.chat_record_reply.content = response_text,
                                  !.pc.think = "closed" ],
                       "raise", "", "TypeError")
             ELSE Step([ g EXCEPT !.is_think_emptied = TRUE,
                                  !.chat_record_reply.content = response_text,
                                  !.chat_record_reply.len =
                                      IF response_text = None THEN r.len
                                      ELSE Some(Val(r.len) + Len(Val(response_text))),
                                  !.pc.think = "closed" ],
                       "break", "", "")
        ELSE Step([ g EXCEPT !.chat_record_reply.think = Some(Val(r.think) \o Val(response_think.val)),
                             !.pc.think = "loop" ],
                  "yield", Val(response_think.val), "")

(* generator_line with the insert placed after the loop instead of in its
   else clause, so that it also runs after a break. *)
generator_line_insert_after(g, mode, response_line) ==
    LET st == IF ~response_line.data
              THEN Step(g, "continue", "", "")
              ELSE LET tw == generator_token_web(g, response_line.json)
                   IN  IF tw.err # ""
                       THEN Step([ tw.val EXCEPT !.pc[mode] = "closed" ], "raise", "", tw.err)
                       ELSE IF mode = "text"
                       THEN generator_text_branch(tw.val, response_line.json)
                       ELSE generator_think_branch(tw.val, response_line.json)
        ins == insert_db(db_record, st.g.chat_record_reply)
    IN  IF st.out = "break"
        THEN [ st EXCEPT !.out = IF ins.err # "" THEN "raise" ELSE "break",
                         !.err = ins.err, !.db = ins.db, !.rows = ins.rows ]
        ELSE st

(* One iteration of `for response_line in response_iter` on a line. *)
generator_line(g, mode, response_line) ==
    IF ~response_line.data
    THEN Step(g, "continue", "", "")
    ELSE LET tw == generator_token_web(g, response_line.json)
         IN  IF tw.err # ""
             THEN Step([ tw.val EXCEPT !.pc[mode] = "closed" ], "raise", "", tw.err)
             ELSE IF mode = "text"
             THEN generator_text_branch(tw.val, response_line.json)
             ELSE generator_think_branch(tw.val, response_line.json)

(* The else clause of the for loop: response_iter has ended. *)
generator_else(g, mode) ==
    LET ins == insert_db(db_record, g.chat_record_reply)
    IN  [ g |-> [ g EXCEPT !.pc[mode] = "closed" ],
          out |-> IF ins.err # "" THEN "raise" ELSE "stop", val |-> "", err |-> ins.err,
          db |-> ins.db, rows |-> ins.rows ]

(* The records of the store that are the object obj take its new value. *)
Mutate(d, obj, chat_record) ==
    [ k \in DOMAIN d |->
        [ i \in 1..Len(d[k]) |-> IF d[k][i].obj = obj THEN chat_record ELSE d[k][i] ] ]

(***************************************************************************)
(* rbrowser.py: the table crawl_browser_page, the loop of a                *)
(* FetchCrawlBrowser built with a database (a poller), and                 *)
(* wait_db_crawl_task.  A row is [create_time, url, status, html] and,     *)
(* kept to state properties, crawls: how many page requests were made for  *)
(* it.  The id of a row is its position, ids being given in order.         *)
(***************************************************************************)
Pollers == { 1, 2 }

(* A poller between two passes.  In a pass: selected is what the select gave,
   queue what the for loop has still to handle, handled what it has handled,
   last the task handled last and whether its request returned. *)
NoPoller ==
    [ selected |-> << >>, queue |-> << >>, handled |-> << >>,
      last |-> [ id |-> 0, ok |-> FALSE ] ]

(* No wait_db_crawl_task is running.  Otherwise pc is "select" (about to
   select the row), "check" (the row was not SUCCESS: about to check the
   time) or "done", with the result in ret. *)
NoWaiter ==
    [ pc |-> "idle", record_id |-> 0, timeout |-> 0, start |-> 0,
      ret |-> [ kind |-> "none", html |-> None, err |-> "" ] ]

(* The ids in ids ordered by "create_time" ASC: every order the database may
   give, rows of equal create_time coming in any order. *)
RECURSIVE order_by_create_time(_, _)
order_by_create_time(t, ids) ==
    IF ids = { } THEN { << >> }
    ELSE UNION { { << i >> \o rest : rest \in order_by_create_time(t, ids \ { i }) } :
                 i \in { j \in ids : \A k \in ids : t[j].create_time <= t[k].create_time } }

(* The select taking every row, whatever its status. *)
select_wait_any_status(t) == order_by_create_time(t, DOMAIN t)

(* select id, url where "status" = 'wait' order by "create_time" ASC *)
select_wait(t) ==
    order_by_create_time(t, { i \in DOMAIN t : t[i].status = "wait" })

(* add_db_crawl_task: a row is inserted, status and create_time by default. *)
AddTask(url) ==
    /\ Len(tasks) < MaxTasks
    /\ tasks' = Append(tasks, [ create_time |-> clock, url |-> url, status |-> "wait",
                                html |-> None, crawls |-> 0 ])
    /\ UNCHANGED << aliVars, clock, pollers, waiter >>

(* __crawl_by_db '# Get task.': poller p, between two passes, selects. *)
PollSelect(p) ==
    /\ pollers[p].queue = << >>
    /\ \E task_table \in select_wait(tasks) :
          pollers' = [ pollers EXCEPT ![p].selected = task_table, ![p].queue = task_table,
                                      ![p].handled = << >> ]
    /\ UNCHANGED << aliVars, clock, tasks, waiter >>

(* driver.page_source after request(url): the page of the url when the
   request returned, and whatever the driver shows when it raised. *)
page(url, ok) == IF ok THEN Some("page of " \o url) ELSE Some("")

(* One turn of the for loop of __crawl_by_db: request(url) returns (ok) or
   raises, and the row of the id is updated with the page and the status. *)
PollCrawl(p, ok) ==
    /\ pollers[p].queue # << >>
    /\ LET id_ == Head(pollers[p].queue)
           status == IF ok THEN "success" ELSE "fail"
       IN  /\ tasks' = [ tasks EXCEPT ![id_].status = status,
                                      ![id_].html = page(tasks[id_].url, ok),
                                      ![id_].crawls = @ + 1 ]
           /\ pollers' = [ pollers EXCEPT ![p].queue = Tail(@),
                                          ![p].handled = Append(@, id_),
                                          ![p].last = [ id |-> id_, ok |-> ok ] ]
    /\ UNCHANGED << aliVars, clock, waiter >>

(* Another user of the table cancels a task that waits. *)
Cancel(id_) ==
    /\ id_ \in DOMAIN tasks
    /\ tasks[id_].status = "wait"
    /\ tasks' = [ tasks EXCEPT ![id_].status = "cancel" ]
    /\ UNCHANGED << aliVars, clock, pollers, waiter >>

(* wait_db_crawl_task reporting a task that failed or was cancelled at once. *)
wait_poll_reports_failure(t, record_id) ==
    IF record_id \notin DOMAIN t THEN [ kind |-> "raise", html |-> None, err |-> "AssertionError" ]
    ELSE IF t[record_id].status = "success"
    THEN [ kind |-> "return", html |-> t[record_id].html, err |-> "" ]
    ELSE IF t[record_id].status \in { "fail", "cancel" }
    THEN [ kind |-> "raise", html |-> None, err |-> "AssertionError" ]
    ELSE [ kind |-> "none", html |-> None, err |-> "" ]

(* wait_db_crawl_task from '# Select.' to '# Complete.': raise when there is
   no row, return the html of a row that is SUCCESS, go on otherwise. *)
wait_poll(t, record_id) ==
    IF record_id \notin DOMAIN t THEN [ kind |-> "raise", html |-> None, err |-> "AssertionError" ]
    ELSE IF t[record_id].status = "success"
    THEN [ kind |-> "return", html |-> t[record_id].html, err |-> "" ]
    ELSE [ kind |-> "none", html |-> None, err |-> "" ]

(* wait_db_crawl_task(db_engine, record_id, timeout) is called: tm(). *)
WaitStart(record_id, timeout) ==
    /\ waiter.pc = "idle"
    /\ waiter' = [ waiter EXCEPT !.pc = "select", !.record_id = record_id,
                                 !.timeout = timeout, !.start = clock ]
    /\ UNCHANGED << aliVars, clock, tasks, pollers >>

(* The select of the loop and what follows from the row. *)
WaitSelect ==
    /\ waiter.pc = "select"
    /\ LET ret == wait_poll(tasks, waiter.record_id)
       IN  waiter' = [ waiter EXCEPT !.pc = IF ret.kind = "none" THEN "check" ELSE "done",
                                     !.ret = ret ]
    /\ UNCHANGED << aliVars, clock, tasks, pollers >>

(* '# Timeout.': tm() and the check of the time spent, then sleep(1). *)
WaitCheck ==
    /\ waiter.pc = "check"
    /\ waiter' = IF clock - waiter.start > waiter.timeout
                 THEN [ waiter EXCEPT !.pc = "done",
                                      !.ret = [ kind |-> "raise", html |-> None,
                                                err |-> "TimeoutError" ] ]
                 ELSE [ waiter EXCEPT !.pc = "select" ]
    /\ UNCHANGED << aliVars, clock, tasks, pollers >>

(***************************************************************************)
(* Actions.  The session is used by one thread: while a generator is       *)
(* inside next(), nothing else runs.                                       *)
(***************************************************************************)
Idle == \A c \in Calls : calls[c].running = "none"

(* The attributes of a session and what surrounds it: the table, the
   transport, the clock and the caller, who has made no call yet. *)
InitState(sys, r, ret, max_char, max_time) ==
    /\ system = sys
    /\ rand = r
    /\ init_ret = ret
    /\ history_max_char = max_char
    /\ history_max_time = max_time
    /\ response = None
    /\ extracts = << >>
    /\ tasks = << >>
    /\ pollers = [ p \in Pollers |-> NoPoller ]
    /\ waiter = NoWaiter
    /\ data = << >>
    /\ db_record = EmptyRow
    /\ sink = << >>
    /\ sent = << >>
    /\ clock = 0
    /\ calls = [ c \in Calls |-> NoCall ]
    /\ chat_ret = NoRet
    /\ pull_ret = NoPull
    /\ hist_ret = NoHist
    /\ seen = [ c \in Calls |-> NoSeen ]

(* The state after FetchRequestAliQwen(key, None, sys, max_char=..., max_time=...),
   rand being the default, 0.5. *)
InitWith(sys, max_char, max_time) ==
    InitState(sys, Some(50), [ made |-> TRUE, err |-> "", rand |-> 50 ], max_char, max_time)

(* FetchRequestAliQwen(key, None, sys, r) by a caller who has no session yet:
   a rand that fails the check raises before any attribute is set. *)
Construct(sys, r) ==
    /\ rand = None
    /\ init_ret' = [ made |-> TRUE, err |-> IF rand_check(r) THEN "" ELSE "ValueError",
                     rand |-> r ]
    /\ rand' = IF rand_check(r) THEN Some(r) ELSE None
    /\ system' = IF rand_check(r) THEN sys ELSE system
    /\ data' = << >>
    /\ UNCHANGED << tasks, pollers, waiter, history_max_char, history_max_time, response, extracts, db_record, sink,
                    sent, clock, calls, chat_ret, pull_ret, hist_ret, seen >>

(* The caller gets hold of a decoded response object, as request() returns
   one or as a data line decodes to one. *)
Receive(response_json) ==
    /\ response = None
    /\ response' = Some(response_json)
    /\ extracts' = << >>
    /\ UNCHANGED << tasks, pollers, waiter, system, history_max_char, history_max_time, rand, init_ret, data,
                    db_record, sink, sent, clock, calls, chat_ret, pull_ret, hist_ret, seen >>

(* The caller calls one extractor (op: "record", "text", "token", "web" or
   "think") on the response object it holds. *)
Extract(op) ==
    /\ response # None
    /\ Len(extracts) < MaxExtracts
    /\ LET response_json == Val(response)
           ret == CASE op = "record" -> extract_response_record(response_json, clock, 0)
                    [] op = "text" -> Ok(extract_response_text(response_json))
                    [] op = "token" -> Ok(extract_response_token(response_json))
                    [] op = "web" -> extract_response_web(response_json)
                    [] op = "think" -> extract_response_think(response_json)
       IN  /\ extracts' = Append(extracts, [ op |-> op, err |-> ret.err, val |-> ret.val ])
           /\ response' = IF op \in { "record", "web" }
                          THEN Some(extract_response_web_leaves(response_json))
                          ELSE response
    /\ UNCHANGED << tasks, pollers, waiter, system, history_max_char, history_max_time, rand, init_ret, data,
                    db_record, sink, sent, clock, calls, chat_ret, pull_ret, hist_ret, seen >>

(* A chat() invocation, the c-th of the run. *)
Chat(c, a, resp) ==
    /\ Idle
    /\ ~calls[c].made
    /\ \A b \in Calls : b < c => calls[b].made
    /\ clock + resp.dt <= MaxClock
    /\ LET r == chat(c, a, resp)
       IN  /\ data' = r.data
           /\ db_record' = r.db_record
           /\ sink' = r.sink
           /\ sent' = r.sent
           /\ clock' = r.clock
           /\ calls' = [ calls EXCEPT ![c] = r.call ]
           /\ chat_ret' = [ call |-> r.ret.call, err |-> r.ret.err, kind |-> r.ret.kind, a |-> a,
                            source |-> IF resp.kind # "lines" THEN resp.kind
                                       ELSE IF resp.seed = None THEN "nodata" ELSE "data" ]
           /\ seen' = IF r.call.live
                      THEN [ seen EXCEPT ![c].seed = extract_response_text(Val(resp.seed).json),
                                         ![c].seed_think = r.call.chat_record_reply.think,
                                         ![c].usage = Val(resp.seed).json.usage,
                                         ![c].request_time = Some(clock),
                                         ![c].text = IF a.index # None
                                                     THEN Val(resp.seed).json.content ELSE @,
                                         ![c].pulled_at = IF a.index = None THEN r.clock ELSE @ ]
                      ELSE seen
    /\ hist_ret' = IF a.index # None /\ chat(c, a, resp).ret.err # "ValueError"
                   THEN [ op |-> "chat", index |-> Val(a.index), max_char |-> a.history_max_char,
                          max_time |-> a.history_max_time, delete |-> TRUE, now |-> clock,
                          before |-> Len(Stored(data, Val(a.index))), records |-> << >>,
                          ret |-> << >> ]
                   ELSE NoHist
    /\ UNCHANGED << cfgVars, pull_ret >>

(* The effect of a generator step on the closure of call c, on the records
   of the store that are its reply record, on the database and on the
   caller. *)
Advance(c, mode, st) ==
    /\ calls' = [ calls EXCEPT ![c] =
                    [ st.g EXCEPT !.running = IF st.out = "continue" THEN mode ELSE "none" ] ]
    /\ data' = Mutate(data, c, st.g.chat_record_reply)
    /\ db_record' = st.db
    /\ sink' = db_record_record(sink, st.rows, c)
    /\ pull_ret' = [ call |-> c, mode |-> mode,
                     kind |-> CASE st.out = "continue" -> "running"
                                [] st.out = "yield" -> "yield"
                                [] st.out = "raise" -> "raise"
                                [] OTHER -> "stop",
                     val |-> st.val, err |-> st.err ]

Ended(c, mode, how) == [ seen EXCEPT ![c].end[mode] = how ]

(* The observations sn with the element of step st, if it yields one. *)
Yielded(c, mode, st, sn) ==
    IF st.out = "yield" /\ calls[c].index # None
    THEN [ sn EXCEPT ![c].yielded[mode] = @ \o st.val ]
    ELSE sn

(* generator_next running the body of a closed generator anew. *)
generator_next_reopened(g, mode) ==
    CASE g.pc[mode] \in { "created", "closed" } -> generator_first(g, mode)
      [] OTHER -> Step(g, "continue", "", "")

(* What next() does with a generator: a new one runs to its first yield, a
   suspended one resumes at the for loop, a closed one (it has returned or
   raised) raises StopIteration at once. *)
generator_next(g, mode) ==
    CASE g.pc[mode] = "created" -> generator_first(g, mode)
      [] g.pc[mode] \in { "first", "loop" } -> Step(g, "continue", "", "")
      [] OTHER -> Step(g, "stop", "", "")

(* next(generator) by the caller: a new generator runs to its first yield, a
   suspended one resumes at the for loop, a closed one raises StopIteration.
   generator_think is handed out by chat(think=True) only. *)
Pull(c, mode) ==
    /\ Idle
    /\ calls[c].live
    /\ mode = "think" => calls[c].think
    /\ LET g == calls[c]
           st == generator_next(g, mode)
       IN  /\ Advance(c, mode, st)
           /\ seen' = IF st.out = "raise" THEN Ended(c, mode, st.err)
                      ELSE Yielded(c, mode, st, seen)
    /\ hist_ret' = NoHist
    /\ UNCHANGED << cfgVars, sent, clock, chat_ret >>

(* response_iter gives the running generator its next line. *)
ReadLine(c, response_line) ==
    /\ calls[c].running # "none"
    /\ ~calls[c].exhausted
    /\ calls[c].consumed < MaxLines
    /\ LET g == [ calls[c] EXCEPT !.consumed = @ + 1 ]
           mode == g.running
           st == generator_line(g, mode, response_line)
           seen1 == [ seen EXCEPT ![c].usage = IF response_line.data /\ response_line.json.usage # None
                                               THEN response_line.json.usage ELSE @,
                                  ![c].late = \/ @
                                              \/ /\ g.chat_record_reply.web # None
                                                 /\ response_line.data
                                                 /\ response_line.json.output
                                                 /\ extract_response_web(response_line.json).val # None,
                                  ![c].pulled_at = IF g.index = None THEN clock ELSE @,
                                  ![c].text = IF /\ g.index # None /\ response_line.data
                                                 /\ response_line.json.output
                                              THEN @ \o response_line.json.content ELSE @ ]
       IN  /\ Advance(c, mode, st)
           /\ seen' = IF st.out \in { "raise", "break" }
                      THEN [ seen1 EXCEPT ![c].end[mode] = IF st.out = "break" THEN "break" ELSE st.err ]
                      ELSE Yielded(c, mode, st, seen1)
    /\ hist_ret' = NoHist
    /\ UNCHANGED << cfgVars, sent, clock, chat_ret >>

(* response_iter ends (or has ended) under the running generator. *)
EndOfLines(c) ==
    /\ calls[c].running # "none"
    /\ LET g == [ calls[c] EXCEPT !.exhausted = TRUE ]
       IN  Advance(c, g.running, generator_else(g, g.running))
    /\ seen' = Ended(c, calls[c].running, "else")
    /\ hist_ret' = NoHist
    /\ UNCHANGED << cfgVars, sent, clock, chat_ret >>

(* append_chat_records_history(records, index, history_max_char,
   history_max_time) by the caller. *)
AppendRecords(records, index, max_char_arg, max_time_arg) ==
    /\ Idle
    /\ Len(Stored(data, index)) <= MaxTurns
    /\ data' = append_chat_records_history(data, records, index, max_char_arg, max_time_arg, clock)
    /\ hist_ret' = [ op |-> "append", index |-> index, max_char |-> max_char_arg,
                     max_time |-> max_time_arg, delete |-> TRUE, now |-> clock,
                     before |-> Len(Stored(data, index)), records |-> << records >>,
                     ret |-> << >> ]
    /\ chat_ret' = NoRet
    /\ pull_ret' = NoPull
    /\ UNCHANGED << cfgVars, db_record, sink, sent, clock, calls, seen >>

(* get_chat_records_history(index, history_max_char, history_max_time, delete)
   by the caller. *)
GetRecords(index, max_char_arg, max_time_arg, delete) ==
    /\ Idle
    /\ LET r == get_chat_records_history(data, index, max_char_arg, max_time_arg, delete, clock)
       IN  /\ data' = r.data
           /\ hist_ret' = [ op |-> "get", index |-> index, max_char |-> max_char_arg,
                            max_time |-> max_time_arg, delete |-> delete, now |-> clock,
                            before |-> Len(Stored(data, index)), records |-> << >>,
                            ret |-> r.ret ]
    /\ chat_ret' = NoRet
    /\ pull_ret' = NoPull
    /\ UNCHANGED << cfgVars, db_record, sink, sent, clock, calls, seen >>

(* Time passes between two calls. *)
Tick ==
    /\ Idle
    /\ clock < MaxClock
    /\ clock' = clock + 1
    /\ hist_ret' = NoHist
    /\ chat_ret' = NoRet
    /\ pull_ret' = NoPull
    /\ UNCHANGED << cfgVars, data, db_record, sink, sent, calls, seen >>

(***************************************************************************)
(* SpecStream: one streaming chat() without a conversation key, and every  *)
(* order of pulls on its generators, over every line source.               *)
(***************************************************************************)
StreamArgs(think) ==
    [ text |-> "q", index |-> None, system |-> None, web |-> FALSE, web_mark |-> FALSE,
      think |-> think, stream |-> TRUE, history_max_char |-> None, history_max_time |-> None ]

StreamResp(seed) ==
    [ kind |-> "lines", dt |-> 0, json |-> NoJson, seed |-> seed ]

InitStream == InitWith(None, None, None)

ChatStream ==
    \E think \in BOOLEAN, seed \in {None} \cup { Some(l) : l \in DataLines } :
        Chat(1, StreamArgs(think), StreamResp(seed))

PullText == Pull(1, "text")

PullThink == Pull(1, "think")

NextLine == \E response_line \in Lines : ReadLine(1, response_line)

LinesEnd == EndOfLines(1)

NextStream == ChatStream \/ PullText \/ PullThink \/ NextLine \/ LinesEnd

SpecStream == InitStream /\ [][NextStream]_vars

(***************************************************************************)
(* Properties of the stream generators (SpecStream).                       *)
(***************************************************************************)
Writes(c) == Cardinality({ i \in 1..Len(sink) : sink[i].by = c })

G1 == calls[1]

(* generator_text has run into the else clause of its for loop: the caller
   has drained the reply-sequence to the end of the line source. *)
TextDrained == G1.live /\ seen[1].end.text = "else"

(* generator_think has ended by its break or by the end of the line source. *)
ThinkDrained == G1.live /\ seen[1].end.think \in { "break", "else" }

\* C1: once the reply-sequence has been drained to the end of the line source
\* (a usage block having been delivered), exactly one row has been written for
\* the call.
C1_DrainWritesOnce ==
    (TextDrained /\ seen[1].usage # None) => Writes(1) = 1

\* C2: in every reachable state, at most one row has been written for the call.
C2_AtMostOneWrite ==
    Writes(1) <= 1

(* A next() on generator_text while the reasoning phase is open. *)
EarlyPullText == PullText /\ G1.live /\ ~G1.is_think_emptied

NoElementNoLine ==
    /\ pull_ret'.kind \in { "raise", "stop" }
    /\ calls'[1].running = "none"
    /\ calls'[1].consumed = G1.consumed

\* C3 (as claimed): every pull on the reply-sequence made while the reasoning
\* phase is open raises the ordering error, yields nothing and reads no line.
C3_EveryEarlyPullRaises ==
    [][ EarlyPullText =>
            /\ pull_ret'.kind = "raise" /\ pull_ret'.err = "AssertionError"
            /\ NoElementNoLine ]_vars

\* C3 (amended): the first pull on the reply-sequence made while the reasoning
\* phase is open raises the ordering error; every pull made in that phase
\* yields nothing and reads no line.
C3_FirstEarlyPullRaises ==
    [][ EarlyPullText =>
            /\ G1.pc.text = "created" =>
                   (pull_ret'.kind = "raise" /\ pull_ret'.err = "AssertionError")
            /\ NoElementNoLine ]_vars

C3_Witness ==
    /\ G1.live /\ ~G1.is_think_emptied
    /\ pull_ret.mode = "text" /\ pull_ret.kind = "raise" /\ pull_ret.err = "AssertionError"
    /\ G1.pc.text = "closed"

\* C4: once the reasoning-sequence has ended (by a chunk without reasoning
\* text or by the end of the line source), a first pull on the reply-sequence
\* does not raise the ordering error.
C4_NoOrderingErrorAfterThinkDrained ==
    [][ (PullText /\ ThinkDrained /\ G1.pc.text = "created") =>
            ~(pull_ret'.kind = "raise" /\ pull_ret'.err = "AssertionError") ]_vars

\* C5: in a reasoning call whose seed has no reasoning text, a pull on the
\* reasoning-sequence yields no data and reads no line, and the first pull on
\* the reply-sequence yields the seed's reply text.
C5_EmptySeedReasoning ==
    [][ (G1.live /\ G1.think /\ seen[1].seed_think = None) =>
            /\ PullThink => (pull_ret'.kind = "yield" => pull_ret'.val = "")
            /\ G1.running = "think" => calls'[1].consumed = G1.consumed
            /\ (PullText /\ G1.pc.text = "created") =>
                   (pull_ret'.kind = "yield" /\ pull_ret'.val = Val(seen[1].seed)) ]_vars

\* C6: when generator_think reads a chunk without reasoning text, the reply
\* text afterwards is the text accumulated before followed by the chunk's
\* fragment, the reasoning phase is closed and the generator has ended.
C6_LastThinkChunkFolded ==
    [][ \A l \in DataLines :
            ( /\ G1.running = "think"
              /\ l.json.output
              /\ extract_response_think(l.json).val = None
              /\ ReadLine(1, l) ) =>
            /\ calls'[1].chat_record_reply.content =
                   Some(OrEmpty(G1.chat_record_reply.content) \o l.json.content)
            /\ calls'[1].is_think_emptied
            /\ calls'[1].pc.think = "closed"
            /\ calls'[1].running = "none" ]_vars

\* C7: the record's token usage is the last usage block that was not absent
\* over all chunks read, and so are the token fields of a row written.
C7_LastUsageKept ==
    G1.live =>
        LET last == extract_response_token([ NoJson EXCEPT !.usage = seen[1].usage ])
        IN  /\ G1.chat_record_reply.token = last
            /\ \A i \in 1..Len(sink) :
                   sink[i].by = 1 =>
                       /\ last # None
                       /\ sink[i].row.token_total = Some(Val(last).total)
                       /\ sink[i].row.token_input = Some(Val(last).input)
                       /\ sink[i].row.token_output = Some(Val(last).output)
                       /\ sink[i].row.token_output_think = Val(last).output_think

\* C8: once the record of the call holds citations, they never change.
C8_CitationsCapturedOnce ==
    [][ (G1.live /\ G1.chat_record_reply.web # None) =>
            calls'[1].chat_record_reply.web = G1.chat_record_reply.web ]_vars

C8_Witness ==
    /\ G1.live /\ G1.chat_record_reply.web # None
    /\ seen[1].late
    /\ pull_ret.kind = "yield"

\* C9: a row is written for a streaming call only when the line source has
\* ended.
C9_NoWriteBeforeExhaustion ==
    G1.live => (Writes(1) > 0 => G1.exhausted)

C9_Witness ==
    /\ G1.live /\ ~G1.exhausted /\ G1.consumed >= 2
    /\ G1.pc.text = "loop" /\ G1.running = "none"
    /\ Writes(1) = 0

(***************************************************************************)
(* SpecSession: one session, a streaming chat() on key "A" and then a      *)
(* chat() on key "B", with every order of pulls on their reply generators. *)
(***************************************************************************)
SessionArgs(text, index, stream) ==
    [ text |-> text, index |-> Some(index), system |-> None, web |-> FALSE, web_mark |-> FALSE,
      think |-> FALSE, stream |-> stream, history_max_char |-> None, history_max_time |-> None ]

(* Chunks with a reply fragment and a usage block. *)
SessionLines ==
    { l \in DataLines : /\ l.json.output /\ l.json.content = "a"
                        /\ l.json.reasoning = None /\ l.json.search = None
                        /\ l.json.usage # None }

InitSession == InitWith(None, None, None)

ChatA ==
    \E dt \in 0..1, seed \in SessionLines :
        Chat(1, SessionArgs("q", "A", TRUE),
             [ kind |-> "lines", dt |-> dt, json |-> NoJson, seed |-> Some(seed) ])

ChatB ==
    \E dt \in 0..1, stream \in BOOLEAN, l \in SessionLines :
        Chat(2, SessionArgs("p", "B", stream),
             IF stream
             THEN [ kind |-> "lines", dt |-> dt, json |-> NoJson, seed |-> Some(l) ]
             ELSE [ kind |-> "json", dt |-> dt, json |-> l.json, seed |-> None ])

PullReply == \E c \in Calls : Pull(c, "text")

SessionLine == \E c \in Calls, response_line \in SessionLines : ReadLine(c, response_line)

SessionEnd == \E c \in Calls : EndOfLines(c)

NextSession == ChatA \/ ChatB \/ PullReply \/ SessionLine \/ SessionEnd

SpecSession == InitSession /\ [][NextSession]_vars

(***************************************************************************)
(* Properties of interleaved calls (SpecSession).                          *)
(***************************************************************************)
(* The stored history of "A" is the question of the call on A and its reply
   record, whatever the call on B has done. *)
HistoryOfAUnaffected ==
    calls[1].live =>
        data["A"] = << UserRecord("q", Val(seen[1].request_time)), calls[1].chat_record_reply >>

(* Every row written for the call on A has the messages and the request time
   of that call. *)
RowOfACarriesItsRequest ==
    \A i \in 1..Len(sink) :
        sink[i].by = 1 =>
            /\ sink[i].row.messages = Some(sent[1].messages)
            /\ sink[i].row.request_time = seen[1].request_time

\* C10: with a streaming chat() on key A and a chat() on key B in one session,
\* in any order of the call on B and the pulls on A's reply generator, the row
\* written for the call on A carries the messages and the request time of the
\* call on A, and the stored history of A is that of the call on A alone.
C10_InterleavedCallsIndependent ==
    HistoryOfAUnaffected /\ RowOfACarriesItsRequest

(***************************************************************************)
(* SpecHistory: the history store of one key under appends and gets, with  *)
(* session limits and limits per call, explicit record times before and    *)
(* after the clock, and time passing.                                      *)
(***************************************************************************)
HistoryDicts ==
    { [ time |-> None, role |-> Some("assistant"), content |-> "a" ],
      [ time |-> Some(-1000), role |-> None, content |-> "a" ],
      [ time |-> Some(5), role |-> None, content |-> "hello" ] }

HistoryRecords ==
    { RecordsStr(s) : s \in { "a", "hello" } }
        \cup { RecordsDict(d) : d \in HistoryDicts }
        \cup { RecordsList(<< "hello", "a" >>) }

MaxChars == { None, Some(0), Some(6) }
MaxTimes == { None, Some(0), Some(1) }

InitHistory ==
    \E max_char \in MaxChars \ { Some(0) }, max_time \in MaxTimes \ { Some(0) } :
        InitWith(None, max_char, max_time)

AppendHistory ==
    \E records \in HistoryRecords, max_char \in MaxChars, max_time \in MaxTimes \ { Some(1) } :
        AppendRecords(records, "A", max_char, max_time)

GetHistory ==
    \E max_char \in MaxChars, max_time \in MaxTimes \ { Some(1) }, delete \in BOOLEAN :
        GetRecords("A", max_char, max_time, delete)

NextHistory == AppendHistory \/ GetHistory \/ Tick

SpecHistory == InitHistory /\ [][NextHistory]_vars

(***************************************************************************)
(* SpecKeyed: a session with a history limit or without, chat() calls on   *)
(* one key (streaming or not, with a limit per call or without), appends   *)
(* and gets on the same key, and time passing.                             *)
(***************************************************************************)
KeyedRecords ==
    { RecordsStr("a"),
      RecordsDict([ time |-> Some(5), role |-> None, content |-> "a" ]),
      RecordsDict([ time |-> Some(-1000), role |-> None, content |-> "a" ]) }

(* The limits passed to a call: none, max_char 0 or max_time 0. *)
KeyedLimits ==
    { [ max_char |-> None, max_time |-> None ],
      [ max_char |-> Some(0), max_time |-> None ],
      [ max_char |-> None, max_time |-> Some(0) ] }

(* The limits of the session: none, max_char 1 or max_time 1. *)
SessionLimits ==
    { [ max_char |-> None, max_time |-> None ],
      [ max_char |-> Some(1), max_time |-> None ],
      [ max_char |-> None, max_time |-> Some(1) ] }

(* The reply: one chunk, or one whole response, with a usage block. *)
KeyedJson ==
    [ output |-> TRUE, content |-> "a", reasoning |-> None,
      usage |-> Some([ total_tokens |-> 3, input_tokens |-> 1, output_tokens |-> 2,
                       reasoning_tokens |-> None ]),
      search |-> None ]

KeyedArgs(stream, limits) ==
    [ text |-> "q", index |-> Some("A"), system |-> None, web |-> FALSE, web_mark |-> FALSE,
      think |-> FALSE, stream |-> stream,
      history_max_char |-> limits.max_char, history_max_time |-> limits.max_time ]

KeyedResp(stream) ==
    IF stream
    THEN [ kind |-> "lines", dt |-> 0, json |-> NoJson,
           seed |-> Some([ data |-> TRUE, json |-> KeyedJson ]) ]
    ELSE [ kind |-> "json", dt |-> 0, json |-> KeyedJson, seed |-> None ]

InitKeyed ==
    \E limits \in SessionLimits : InitWith(None, limits.max_char, limits.max_time)

ChatKeyed ==
    \E stream \in BOOLEAN, limits \in KeyedLimits :
        /\ Len(Stored(data, "A")) <= MaxTurns
        /\ Chat(1, KeyedArgs(stream, limits), KeyedResp(stream))

AppendKeyed ==
    \E records \in KeyedRecords, limits \in KeyedLimits :
        AppendRecords(records, "A", limits.max_char, limits.max_time)

GetKeyed ==
    \E limits \in KeyedLimits, delete \in BOOLEAN :
        GetRecords("A", limits.max_char, limits.max_time, delete)

PullKeyed == Pull(1, "text")

LineKeyed == ReadLine(1, [ data |-> TRUE, json |-> KeyedJson ])

EndKeyed == EndOfLines(1)

NextKeyed ==
    ChatKeyed \/ AppendKeyed \/ GetKeyed \/ Tick \/ PullKeyed \/ LineKeyed \/ EndKeyed

SpecKeyed == InitKeyed /\ [][NextKeyed]_vars

(***************************************************************************)
(* SpecLimits: the limits of the session and of the call in get, append    *)
(* and a chat() that does not stream, on one key, with time passing.       *)
(***************************************************************************)
InitLimits == InitKeyed

ChatLimits ==
    \E limits \in KeyedLimits :
        /\ Len(Stored(data, "A")) <= MaxTurns
        /\ Chat(1, KeyedArgs(FALSE, limits), KeyedResp(FALSE))

AppendLimits ==
    \E records \in { RecordsStr("a"),
                     RecordsDict([ time |-> Some(-1000), role |-> None, content |-> "a" ]) },
       limits \in KeyedLimits :
        AppendRecords(records, "A", limits.max_char, limits.max_time)

NextLimits == ChatLimits \/ AppendLimits \/ GetKeyed \/ Tick

SpecLimits == InitLimits /\ [][NextLimits]_vars

(***************************************************************************)
(* SpecFail: chat() on a transport that raises, rejects the body, gives a  *)
(* line source without data line, a response the extraction raises on, a   *)
(* response without usage block, or a good response; with key "A" or       *)
(* without, streaming or not, with a max_char of the call or without.      *)
(***************************************************************************)
FailArgs ==
    [ text : { "q" }, index : { None, Some("A") }, system : { None },
      web : { FALSE }, web_mark : { FALSE }, think : { FALSE }, stream : BOOLEAN,
      history_max_char : { None, Some(1) }, history_max_time : { None } ]

FailJsons ==
    { KeyedJson, [ KeyedJson EXCEPT !.usage = None ],
      [ NoJson EXCEPT !.usage = KeyedJson.usage ] }

FailResp(stream) ==
    { [ kind |-> "error", dt |-> 0, json |-> NoJson, seed |-> None ] }
    \cup ( IF stream
           THEN { [ kind |-> "lines", dt |-> 1, json |-> NoJson, seed |-> seed ] :
                    seed \in { None } \cup { Some([ data |-> TRUE, json |-> j ]) : j \in FailJsons } }
           ELSE { [ kind |-> "bad", dt |-> 1, json |-> NoJson, seed |-> None ] }
                \cup { [ kind |-> "json", dt |-> 1, json |-> j, seed |-> None ] :
                         j \in FailJsons } )

InitFail == InitWith(None, None, None)

ChatFail ==
    \E c \in Calls, a \in FailArgs : \E resp \in FailResp(a.stream) : Chat(c, a, resp)

AppendFail == AppendRecords(RecordsStr("a"), "A", None, None)

NextFail == ChatFail \/ AppendFail

SpecFail == InitFail /\ [][NextFail]_vars

(***************************************************************************)
(* SpecReply: one streaming chat() with key "A", with reasoning or without,*)
(* and its generators read to the end of a line source of reply text and   *)
(* reasoning text.                                                         *)
(***************************************************************************)
ReplyArgs(think) ==
    [ text |-> "q", index |-> Some("A"), system |-> None, web |-> FALSE, web_mark |-> FALSE,
      think |-> think, stream |-> TRUE, history_max_char |-> None, history_max_time |-> None ]

ReplySeeds ==
    { [ KeyedJson EXCEPT !.content = content, !.reasoning = reasoning, !.usage = None ] :
        content \in { "", "a" }, reasoning \in { None, Some("r") } }

ReplyLines ==
    { NonData,
      [ data |-> TRUE, json |-> [ KeyedJson EXCEPT !.content = "", !.reasoning = Some("r"),
                                                   !.usage = None ] ],
      [ data |-> TRUE, json |-> [ KeyedJson EXCEPT !.content = "b", !.usage = None ] ],
      [ data |-> TRUE, json |-> [ KeyedJson EXCEPT !.content = "b" ] ] }

InitReply == InitWith(None, None, None)

ChatReply ==
    \E think \in BOOLEAN, seed \in ReplySeeds :
        Chat(1, ReplyArgs(think),
             [ kind |-> "lines", dt |-> 0, json |-> NoJson,
               seed |-> Some([ data |-> TRUE, json |-> seed ]) ])

NextReply ==
    \/ ChatReply
    \/ Pull(1, "text")
    \/ Pull(1, "think")
    \/ \E response_line \in ReplyLines : ReadLine(1, response_line)
    \/ EndOfLines(1)

SpecReply == InitReply /\ [][NextReply]_vars

(***************************************************************************)
(* SpecRand: a session is built with a rand below, at, between or above    *)
(* the bounds 0 and 1, and when it has been built chat() is called as in   *)
(* SpecFail.                                                               *)
(***************************************************************************)
RandValues == { -1, 0, 50, 99, 100, 101 }

InitUnbuilt == InitState(None, None, NoInit, None, None)

NextRand ==
    \/ \E r \in RandValues : Construct(None, r)
    \/ rand # None /\ ChatFail

SpecRand == InitUnbuilt /\ [][NextRand]_vars

(***************************************************************************)
(* SpecExtract: the caller holds one response object, with citations or    *)
(* without, and calls the extractors on it, in any order.                  *)
(***************************************************************************)
ExtractJsons ==
    [ output : { TRUE }, content : { "a" }, reasoning : { None, Some("r") },
      usage : { None, KeyedJson.usage },
      search : { None } \cup { Some(l) : l \in SearchLists } ]

Extractors == { "record", "text", "token", "web", "think" }

InitExtract == InitWith(None, None, None)

NextExtract ==
    \/ \E response_json \in ExtractJsons : Receive(response_json)
    \/ \E op \in Extractors : Extract(op)

SpecExtract == InitExtract /\ [][NextExtract]_vars

(***************************************************************************)
(* SpecTimes: one streaming chat() without key, its reply generator read   *)
(* to the end of a line source of reply chunks, with time passing between  *)
(* the calls of the caller.                                                *)
(***************************************************************************)
NextTimes ==
    \/ Chat(1, StreamArgs(FALSE), StreamResp(Some([ data |-> TRUE, json |-> KeyedJson ])))
    \/ Tick
    \/ Pull(1, "text")
    \/ \E response_line \in SessionLines : ReadLine(1, response_line)
    \/ EndOfLines(1)

SpecTimes == InitStream /\ [][NextTimes]_vars

(***************************************************************************)
(* SpecUsage: one streaming chat() without key, over every first data line,*)
(* whose line source then delivers only data lines that carry a usage      *)
(* block and no output.                                                    *)
(***************************************************************************)
NextUsage ==
    \/ \E think \in BOOLEAN, json \in JsonWithOutput :
           Chat(1, StreamArgs(think), StreamResp(Some([ data |-> TRUE, json |-> json ])))
    \/ Pull(1, "text")
    \/ Pull(1, "think")
    \/ \E json \in { j \in JsonWithoutOutput : j.usage # None } :
           ReadLine(1, [ data |-> TRUE, json |-> json ])
    \/ EndOfLines(1)

SpecUsage == InitStream /\ [][NextUsage]_vars

(***************************************************************************)
(* SpecChat: chat() with every combination of its arguments (empty text or *)
(* not, key, system text, reasoning, streaming, max_char per call), on a   *)
(* session with a system text and max_char or without, the key holding     *)
(* records appended before.                                                *)
(***************************************************************************)
ChatArgs ==
    [ text : { "", "q" }, index : { None, Some("A") }, system : { None, Some("t") },
      web : { FALSE }, web_mark : { FALSE }, think : BOOLEAN, stream : BOOLEAN,
      history_max_char : { None, Some(0) }, history_max_time : { None } ]

InitChat ==
    \E sys \in { None, Some("s") }, max_char \in { None, Some(1) } :
        InitWith(sys, max_char, None)

ChatAny == \E c \in Calls, a \in ChatArgs : Chat(c, a, KeyedResp(a.stream))

AppendChat ==
    \E records \in { RecordsStr("a"),
                     RecordsDict([ time |-> None, role |-> Some("assistant"), content |-> "b" ]),
                     RecordsDict([ time |-> None, role |-> Some("system"), content |-> "c" ]) } :
        AppendRecords(records, "A", None, None)

NextChat == ChatAny \/ AppendChat

SpecChat == InitChat /\ [][NextChat]_vars

(***************************************************************************)
(* SpecPoller: the table with one poller, tasks added at any time and      *)
(* cancelled by another user between two passes, a caller waiting.         *)
(***************************************************************************)
\* The caller adds the urls in turn.
NextUrl == { IF Len(tasks) % 2 = 0 THEN "u" ELSE "v" }

NextPoller ==
    \/ \E url \in NextUrl : AddTask(url)
    \/ PollSelect(1)
    \/ \E ok \in BOOLEAN : PollCrawl(1, ok)
    \/ \E id_ \in 1..MaxTasks : pollers[1].queue = << >> /\ Cancel(id_)
    \/ \E record_id \in 1..MaxTasks, timeout \in { 0, 1 } : WaitStart(record_id, timeout)
    \/ WaitSelect
    \/ WaitCheck
    \/ Tick

SpecPoller == InitStream /\ [][NextPoller]_vars

(***************************************************************************)
(* SpecRace: two pollers on one table, and tasks cancelled at any time.    *)
(***************************************************************************)
NextRace ==
    \/ \E url \in NextUrl : AddTask(url)
    \/ \E p \in Pollers : PollSelect(p)
    \/ \E p \in Pollers, ok \in BOOLEAN : PollCrawl(p, ok)
    \/ \E id_ \in 1..MaxTasks : Cancel(id_)

SpecRace == InitStream /\ [][NextRace]_vars

(***************************************************************************)
(* SpecLive: one poller and one caller waiting, nothing else writing the   *)
(* table.  The loop of the poller and the loop of the caller go on for     *)
(* ever, each request returning or raising: their steps are weakly fair.   *)
(***************************************************************************)
NextLive ==
    \/ \E url \in NextUrl : AddTask(url)
    \/ PollSelect(1)
    \/ \E ok \in BOOLEAN : PollCrawl(1, ok)
    \/ \E record_id \in 1..MaxTasks, timeout \in { 0, 1 } : WaitStart(record_id, timeout)
    \/ WaitSelect
    \/ WaitCheck
    \/ Tick

SpecLive ==
    /\ InitStream
    /\ [][NextLive]_vars
    /\ WF_vars(PollSelect(1))
    /\ WF_vars(\E ok \in BOOLEAN : PollCrawl(1, ok))
    /\ WF_vars(WaitSelect)
    /\ WF_vars(WaitCheck)

(***************************************************************************)
(* Properties of the history store (SpecHistory).                          *)
(***************************************************************************)
RECURSIVE SumLen(_)
SumLen(chat_records) ==
    IF chat_records = << >> THEN 0
    ELSE Val(chat_records[1].len) + SumLen(Tail(chat_records))

TimeOrdered(chat_records) ==
    \A i, j \in 1..Len(chat_records) : i < j => chat_records[i].time <= chat_records[j].time

IsSuffix(short, long) ==
    /\ Len(short) <= Len(long)
    /\ short = LastN(long, Len(short))

(* The limits in force at the call hist_ret tells of. *)
EffChar(h) == IF h.max_char = None THEN history_max_char ELSE h.max_char
EffTime(h) == IF h.max_time = None THEN history_max_time ELSE h.max_time

(* A record is older than the age limit max_time (seconds) at time now
   (record times and now are in thousandths of a second). *)
TooOld(chat_record, max_time, now) == now - chat_record.time > Val(max_time) * 1000

(* The records an append call builds from its argument. *)
NewRecords(h) ==
    LET dicts == records_dicts(h.records[1])
    IN  [ i \in 1..Len(dicts) |-> chat_record_of(dicts[i], h.now) ]

\* C11: an append made with the session's max_chars alone in force keeps a
\* suffix of the time-ordered sequence (what was stored and what is appended)
\* whose content lengths sum to at most max_chars, and evicts no more than it
\* must: with the newest evicted record added, the sum would exceed max_chars.
C11_AppendKeepsMinimalSuffix ==
    [][ ( /\ hist_ret'.op = "append"
          /\ hist_ret'.max_char = None /\ hist_ret'.max_time = None
          /\ history_max_char # None /\ history_max_time = None ) =>
        LET full == sort(Stored(data, "A") \o NewRecords(hist_ret'))
            kept == data'["A"]
            evicted == Len(full) - Len(kept)
        IN  /\ TimeOrdered(full)
            /\ IsSuffix(kept, full)
            /\ SumLen(kept) <= Val(history_max_char)
            /\ evicted > 0 => SumLen(kept) + Val(full[evicted].len) > Val(history_max_char) ]_vars

(* An append under max_chars alone has evicted the oldest record and kept two. *)
C11_Witness ==
    /\ hist_ret.op = "append" /\ hist_ret.max_char = None /\ hist_ret.max_time = None
    /\ history_max_char # None /\ history_max_time = None
    /\ hist_ret.before = 2
    /\ Len(data["A"]) = 2
    /\ Len(NewRecords(hist_ret)) = 1

\* C15: a get with delete=false leaves the stored list of every key as it was
\* and returns the suffix a get with delete=true and the same limits would
\* retain; with delete=true the stored list itself becomes that suffix; and
\* when no record is beyond a limit, nothing is trimmed in either mode.
C15_GetTrimsOnlyOnDelete ==
    [][ hist_ret'.op = "get" =>
        LET h == hist_ret'
            old == Stored(data, h.index)
            retained == get_chat_records_history(data, h.index, h.max_char, h.max_time,
                                                 TRUE, h.now).data[h.index]
            no_boundary ==
                /\ EffChar(h) # None => SumLen(old) <= Val(EffChar(h))
                /\ EffTime(h) # None =>
                       \A n \in 1..Len(old) : ~TooOld(old[n], EffTime(h), h.now)
        IN  /\ ~h.delete =>
                   /\ \A k \in Keys : Stored(data', k) = Stored(data, k)
                   /\ h.ret = retained
            /\ h.delete =>
                   /\ data'[h.index] = h.ret
                   /\ IsSuffix(h.ret, old)
            /\ no_boundary =>
                   /\ h.ret = old
                   /\ Stored(data', h.index) = old ]_vars

(* A get with delete=false has returned a proper, non-empty suffix of what
   is stored. *)
C15_Witness ==
    /\ hist_ret.op = "get" /\ ~hist_ret.delete
    /\ hist_ret.ret # << >>
    /\ Len(hist_ret.ret) < Len(data["A"])
    /\ IsSuffix(hist_ret.ret, data["A"])

InsertAt(chat_records, i, chat_record) ==
    SubSeq(chat_records, 1, i - 1) \o << chat_record >> \o SubSeq(chat_records, i, Len(chat_records))

(* The turn that a bare string is to give. *)
UserTurn(s, now) ==
    [ time |-> now, role |-> "user", content |-> Some(s), len |-> Some(Len(s)),
      token |-> None, web |-> None, think |-> None, obj |-> 0 ]

\* C17: appending a bare string s adds exactly one turn, with role "user",
\* content s, length the number of characters of s, the clock as its time and
\* no token usage, citations or reasoning text: what is stored afterwards is
\* what was stored with that one turn put in, less what the limits evict from
\* the old end, and is all of it when no limit is in force.
C17_BareStringAddsOneUserTurn ==
    [][ (hist_ret'.op = "append" /\ hist_ret'.records[1].kind = "str") =>
        LET h == hist_ret'
            old == Stored(data, h.index)
            turn == UserTurn(h.records[1].str, clock)
        IN  /\ \E i \in 1..(Len(old) + 1) : IsSuffix(data'[h.index], InsertAt(old, i, turn))
            /\ (EffChar(h) = None /\ EffTime(h) = None) =>
                   Len(data'[h.index]) = Len(old) + 1 ]_vars

(* "hello" has been appended after time has passed and is stored with
   length 5 and the time of the call. *)
C17_Witness ==
    /\ hist_ret.op = "append" /\ hist_ret.records[1] = RecordsStr("hello")
    /\ hist_ret.now > 0
    /\ hist_ret.before > 0
    /\ \E i \in 1..Len(data["A"]) :
           /\ data["A"][i].content = Some("hello") /\ data["A"][i].len = Some(5)
           /\ data["A"][i].role = "user" /\ data["A"][i].time = hist_ret.now

\* C18: appending a list of n strings adds n turns, the i-th with role "user",
\* content the i-th string and length the number of characters of that string:
\* what is stored afterwards is a suffix of the time-ordered sequence of what
\* was stored and those n turns.
C18_ListAddsOneTurnPerString ==
    [][ (hist_ret'.op = "append" /\ hist_ret'.records[1].kind = "list") =>
        LET h == hist_ret'
            l == h.records[1].list
            turns == [ i \in 1..Len(l) |-> UserTurn(l[i], clock) ]
        IN  /\ IsSuffix(data'[h.index], sort(Stored(data, h.index) \o turns))
            /\ (EffChar(h) = None /\ EffTime(h) = None) =>
                   Len(data'[h.index]) = Len(Stored(data, h.index)) + Len(l) ]_vars

(***************************************************************************)
(* Properties of the store under chat(), append and get (SpecKeyed, and    *)
(* SpecLimits for the limits in force).                                    *)
(***************************************************************************)
\* C12: on a session whose history_max_char is set, in every state the content
\* lengths of the records stored for a key sum to at most history_max_char.
C12_StoredWithinMaxChar ==
    history_max_char # None =>
        \A k \in DOMAIN data : SumLen(data[k]) <= Val(history_max_char)

\* C13: after every call that adds records to a key (an append, or a chat()
\* with the key), the stored list is in non-decreasing order of time, and after
\* an append it is a suffix of the stable time-ordering of what was stored and
\* what was appended (equal times keep their insertion order).
C13_StoredTimeOrdered ==
    [][ hist_ret'.op \in { "append", "chat" } =>
        /\ TimeOrdered(data'[hist_ret'.index])
        /\ hist_ret'.op = "append" =>
               IsSuffix(data'[hist_ret'.index],
                        sort(Stored(data, hist_ret'.index) \o NewRecords(hist_ret'))) ]_vars

\* C14: after a get or an append made with delete=true and a max_age in force
\* (of the call, else of the session), no record whose age at the call exceeds
\* max_age is in the list returned or in the list stored for the key.
C14_NoRecordBeyondMaxAge ==
    LET h == hist_ret
    IN  (h.op \in { "get", "append" } /\ h.delete /\ EffTime(h) # None) =>
            /\ \A i \in 1..Len(h.ret) : ~TooOld(h.ret[i], EffTime(h), h.now)
            /\ \A i \in 1..Len(data[h.index]) : ~TooOld(data[h.index][i], EffTime(h), h.now)

(* A get with delete=true under the session's max_age alone has evicted from
   a list that was not in time order, and kept some of it. *)
C14_Witness ==
    /\ hist_ret.op = "get" /\ hist_ret.delete
    /\ EffTime(hist_ret) # None /\ EffChar(hist_ret) = None
    /\ hist_ret.before > Len(data["A"])
    /\ ~TimeOrdered(data["A"])
    /\ hist_ret.ret = data["A"]

(* The j newest records of a list are within the limits. *)
Within(history, j, max_char, max_time, now) ==
    /\ max_char # None => SumLen(LastN(history, j)) <= Val(max_char)
    /\ max_time # None => ~TooOld(history[Len(history) - j + 1], max_time, now)

(* What the limits max_char and max_time retain of a list: its newest
   records up to the first that is not within them. *)
Retained(history, max_char, max_time, now) ==
    LET n == CHOOSE n \in 0..Len(history) :
                 /\ \A j \in 1..n : Within(history, j, max_char, max_time, now)
                 /\ n < Len(history) => ~Within(history, n + 1, max_char, max_time, now)
    IN  LastN(history, n)

\* C16: get, append and chat() trim with the limit passed to the call when
\* one is passed, 0 included, and with the session's limit when it is omitted:
\* get returns, append stores, and chat() stores before its own two records,
\* what those limits retain.
C16_LimitPassedElseSession ==
    [][ hist_ret'.op # "none" =>
        LET h == hist_ret'
            old == Stored(data, h.index)
            new == data'[h.index]
            max_char == IF h.max_char = None THEN history_max_char ELSE h.max_char
            max_time == IF h.max_time = None THEN history_max_time ELSE h.max_time
        IN  CASE h.op = "get" -> h.ret = Retained(old, max_char, max_time, h.now)
              [] h.op = "append" ->
                    new = Retained(sort(old \o NewRecords(h)), max_char, max_time, h.now)
              [] OTHER ->
                    LET kept == Retained(old, max_char, max_time, h.now)
                    IN  /\ Len(new) - Len(kept) \in { 0, 2 }
                        /\ SubSeq(new, 1, Len(kept)) = kept ]_vars

(* A chat() passed max_char 0 on a session with max_char 1 has evicted the
   one record stored, which was within the session's limit. *)
C16_Witness ==
    /\ hist_ret.op = "chat" /\ hist_ret.max_char = Some(0)
    /\ history_max_char = Some(1)
    /\ hist_ret.before = 1
    /\ Len(data["A"]) = 2 /\ data["A"][1].role = "user" /\ data["A"][1].content = Some("q")

(***************************************************************************)
(* Properties of chat() (SpecChat).                                        *)
(***************************************************************************)
(* The step is the chat() invocation c. *)
ChatStep(c) == ~calls[c].made /\ calls'[c].made

\* C19: chat() with empty text, or with reasoning and without streaming, raises
\* the validation error and has sent no request, has created, read or trimmed
\* no history and has written nothing to the table.
C19_InvalidChatTouchesNothing ==
    [][ \A c \in Calls :
            ( /\ ChatStep(c)
              /\ chat_ret'.a.text = "" \/ (chat_ret'.a.think /\ ~chat_ret'.a.stream) ) =>
            /\ chat_ret'.kind = "raise" /\ chat_ret'.err = "ValueError"
            /\ sent' = sent
            /\ data' = data
            /\ sink' = sink
            /\ db_record' = db_record ]_vars

(* A chat() with a key, reasoning and no streaming has raised on a session
   that has sent nothing and whose store has no key. *)
C19_Witness ==
    /\ chat_ret.call # 0 /\ chat_ret.err = "ValueError"
    /\ chat_ret.a.text = "q" /\ chat_ret.a.think /\ ~chat_ret.a.stream
    /\ chat_ret.a.index = Some("A")
    /\ DOMAIN data = { }
    /\ sent = << >>

(* The system message chat() is to send, if any. *)
SystemMessages(a) ==
    IF system # None /\ a.system # None
    THEN << [ role |-> "system", content |-> Some(Val(system) \o Val(a.system)) ] >>
    ELSE IF system # None THEN << [ role |-> "system", content |-> system ] >>
    ELSE IF a.system # None THEN << [ role |-> "system", content |-> a.system ] >>
    ELSE << >>

(* The messages of the history of the key, trimmed, in stored order. *)
HistoryMessages(a, now) ==
    IF a.index = None THEN << >>
    ELSE LET max_char == IF a.history_max_char = None THEN history_max_char
                         ELSE a.history_max_char
             max_time == IF a.history_max_time = None THEN history_max_time
                         ELSE a.history_max_time
             kept == Retained(Stored(data, Val(a.index)), max_char, max_time, now)
         IN  [ i \in 1..Len(kept) |-> [ role |-> kept[i].role, content |-> kept[i].content ] ]

\* C20: the messages chat() sends are the system message when the session or
\* the call has a system text (the session's text followed by the call's when
\* both have), then the trimmed history of the key in stored order when a key
\* is given, then the new user message.
C20_MessagesInOrder ==
    [][ \A c \in Calls :
            ( /\ ChatStep(c)
              /\ ~(chat_ret'.a.text = "" \/ (chat_ret'.a.think /\ ~chat_ret'.a.stream)) ) =>
            /\ Len(sent') = Len(sent) + 1
            /\ sent'[Len(sent')].messages =
                   SystemMessages(chat_ret'.a) \o HistoryMessages(chat_ret'.a, clock)
                       \o << [ role |-> "user", content |-> Some(chat_ret'.a.text) ] >> ]_vars

(* A chat() with both system texts and a key holding two records has sent
   four messages, the system message first. *)
C20_Witness ==
    /\ chat_ret.call # 0 /\ chat_ret.err = ""
    /\ chat_ret.a.system # None /\ system # None /\ chat_ret.a.index # None
    /\ hist_ret.op = "chat" /\ hist_ret.before = 2
    /\ Len(sent[Len(sent)].messages) = 4
    /\ sent[Len(sent)].messages[1] = [ role |-> "system", content |-> Some("st") ]
    /\ sent[Len(sent)].messages[2].role # sent[Len(sent)].messages[3].role

(***************************************************************************)
(* The system turn (SpecChat).                                             *)
(***************************************************************************)
SystemAt(messages) == { i \in 1..Len(messages) : messages[i].role = "system" }

\* C21: whatever appends and chats were made, no key of the history holds a
\* record with role system, and every message list handed to the transport has
\* at most one system message, which is its first element.
C21_SystemOnlyFirstNeverStored ==
    /\ \A k \in DOMAIN data : \A i \in 1..Len(data[k]) : data[k][i].role # "system"
    /\ \A n \in 1..Len(sent) : SystemAt(sent[n].messages) \subseteq { 1 }

(***************************************************************************)
(* chat() without a key (SpecChat).                                        *)
(***************************************************************************)
\* C22: a chat() without a key, streaming or not, leaves the keys of the
\* history and every stored list as they were, and on a session and a call
\* without system text the messages it sends are the one user message.
C22_KeylessChatLeavesHistory ==
    [][ \A c \in Calls :
            ( ChatStep(c) /\ chat_ret'.a.index = None ) =>
            /\ DOMAIN data' = DOMAIN data
            /\ \A k \in DOMAIN data : data'[k] = data[k]
            /\ ( /\ system = None /\ chat_ret'.a.system = None
                 /\ Len(sent') = Len(sent) + 1 ) =>
               sent'[Len(sent')].messages =
                   << [ role |-> "user", content |-> Some(chat_ret'.a.text) ] >> ]_vars

(* A streaming chat() without a key and without system text has succeeded on
   a session whose key "A" holds records, and has sent one message. *)
C22_Witness ==
    /\ chat_ret.call # 0 /\ chat_ret.err = "" /\ chat_ret.kind = "stream"
    /\ chat_ret.a.index = None /\ chat_ret.a.system = None /\ system = None
    /\ "A" \in DOMAIN data /\ Len(data["A"]) = 2
    /\ Len(sent[Len(sent)].messages) = 1

(***************************************************************************)
(* chat() that fails, and chat() that does not stream (SpecFail).          *)
(***************************************************************************)
(* r tells of a chat() in which request() raised: the transport raised, or
   the body of a response that is not streamed was rejected. *)
DispatchFailed(r) ==
    r.err = "TransportError" \/ (r.err = "AssertionError" /\ ~r.a.stream)

(* r tells of a chat() in which extract_response_generator found no data
   line, or an extractor raised. *)
ExtractionFailed(r) ==
    (r.err = "AssertionError" /\ r.a.stream) \/ r.err = "KeyError"

\* C23: a chat() that fails because the transport raises, because the body is
\* rejected or because the line source has no data line, inserts no row, and
\* leaves no generator that could insert one later.
C23_FailedChatWritesNoRow ==
    [][ \A c \in Calls :
            ( ChatStep(c) /\ chat_ret'.err \in { "TransportError", "AssertionError" } ) =>
            /\ sink' = sink
            /\ ~calls'[c].live ]_vars

(* A streaming chat() has found no data line; the table holds the row of the
   other call and none of this one. *)
C23_Witness ==
    /\ chat_ret.call # 0 /\ chat_ret.err = "AssertionError" /\ chat_ret.a.stream
    /\ Len(sink) = 1 /\ Writes(chat_ret.call) = 0

(* The last record of the list of key k is the user record of the chat() r
   tells of. *)
UserTurnLast(d, k, r) ==
    /\ k \in DOMAIN d /\ Len(d[k]) > 0
    /\ d[k][Len(d[k])].role = "user"
    /\ d[k][Len(d[k])].content = Some(r.a.text)

(* As the source of C24 has it: after a chat() with a key whose request
   raised, the list of the key ends with the new user record. *)
C24_UserTurnRecordedOnFailure ==
    [][ \A c \in Calls :
            ( /\ ChatStep(c) /\ chat_ret'.a.index # None
              /\ DispatchFailed(chat_ret') ) =>
            UserTurnLast(data', Val(chat_ret'.a.index), chat_ret') ]_vars

\* C24: after a chat() with a key whose request raised, the new user record is
\* not in the list of the key: the list is what the limits of the call retain
\* of the list before the call, and the other keys are as before.
C24_UserTurnNotRecordedOnFailure ==
    [][ \A c \in Calls :
            ( /\ ChatStep(c) /\ chat_ret'.a.index # None
              /\ DispatchFailed(chat_ret') ) =>
            LET k == Val(chat_ret'.a.index)
                max_char == IF chat_ret'.a.history_max_char = None THEN history_max_char
                            ELSE chat_ret'.a.history_max_char
                max_time == IF chat_ret'.a.history_max_time = None THEN history_max_time
                            ELSE chat_ret'.a.history_max_time
            IN  /\ DOMAIN data' = DOMAIN data \cup { k }
                /\ data'[k] = Retained(Stored(data, k), max_char, max_time, clock)
                /\ ~UserTurnLast(data', k, chat_ret')
                /\ \A j \in DOMAIN data \ { k } : data'[j] = data[j] ]_vars

(* The transport has raised in a chat() with key "A", which held two records
   and holds the same two after the call. *)
C24_Witness ==
    /\ chat_ret.call # 0 /\ chat_ret.err = "TransportError"
    /\ chat_ret.a.index = Some("A") /\ chat_ret.a.history_max_char = None
    /\ hist_ret.op = "chat" /\ hist_ret.before = 2
    /\ Len(data["A"]) = 2 /\ data["A"][2].content = Some("a")

\* C25: a chat() with a key in which the request or the extraction raised has
\* removed no record from the list of any key and has added no key.
C25_FailedChatRemovesNothing ==
    [][ \A c \in Calls :
            ( /\ ChatStep(c) /\ chat_ret'.a.index # None
              /\ DispatchFailed(chat_ret') \/ ExtractionFailed(chat_ret') ) =>
            /\ DOMAIN data' = DOMAIN data
            /\ \A k \in DOMAIN data : IsSuffix(data[k], data'[k]) ]_vars

\* C26: after a chat() with a key that does not stream and returns, the last
\* two records of the list of the key are the new user record and the reply
\* record, and the call has inserted one row, which holds the reply.
C26_ReplyRecordedAndWritten ==
    [][ \A c \in Calls :
            ( /\ ChatStep(c) /\ chat_ret'.a.index # None /\ ~chat_ret'.a.stream
              /\ chat_ret'.err = "" ) =>
            LET h == data'[Val(chat_ret'.a.index)]
            IN  /\ Len(h) >= 2
                /\ h[Len(h) - 1] = UserRecord(chat_ret'.a.text, clock)
                /\ h[Len(h)].role = "assistant"
                /\ h[Len(h)].time = clock'
                /\ h[Len(h)].content = Some(KeyedJson.content)
                /\ Len(sink') = Len(sink) + 1
                /\ sink'[Len(sink')].by = c
                /\ sink'[Len(sink')].row.reply = h[Len(h)].content
                /\ sink'[Len(sink')].row.messages = Some(sent'[Len(sent')].messages) ]_vars

(* A chat() with key "A" that does not stream has returned its record; the
   key held records before, and the call has inserted its one row. *)
C26_Witness ==
    /\ chat_ret.call # 0 /\ chat_ret.kind = "record" /\ chat_ret.err = ""
    /\ chat_ret.a.index = Some("A")
    /\ hist_ret.op = "chat" /\ hist_ret.before = 1
    /\ Len(data["A"]) = 3
    /\ data["A"][2].role = "user" /\ data["A"][3].role = "assistant"
    /\ Writes(chat_ret.call) = 1

(***************************************************************************)
(* The reply record of a streaming chat() with a key (SpecReply).          *)
(***************************************************************************)
(* The last record of the list of key "A". *)
ReplyTurn == data["A"][Len(data["A"])]

\* C27: when generator_text of a streaming chat() with a key has read its
\* line source to the end, the reply record in the list of the key is the
\* record the generators update, its content is the reply text of all data
\* lines of the source, its len is the length of that content, and the row
\* the call has inserted holds the same content.
C27_HistoryReplyIsFullText ==
    ( TextDrained /\ calls[1].index # None ) =>
        /\ ReplyTurn = calls[1].chat_record_reply
        /\ ReplyTurn.content = Some(seen[1].text)
        /\ ReplyTurn.len = Some(Len(seen[1].text))
        /\ \A i \in 1..Len(sink) : sink[i].by = 1 => sink[i].row.reply = Some(seen[1].text)

(***************************************************************************)
(* The randomness (SpecRand).                                              *)
(***************************************************************************)
\* C29: on a session built with rand r, 0 <= r <= 1, every request carries the
\* temperature 2r, or 1.99 when r is 1, which is at least 0 and below 2, and
\* the presence penalty 4r - 2, which is within -2 and 2 (in hundredths).
C29_TemperatureBelowTwo ==
    \A n \in 1..Len(sent) :
        /\ rand # None /\ 0 <= Val(rand) /\ Val(rand) <= 100
        /\ sent[n].temperature = IF Val(rand) = 100 THEN 199 ELSE 2 * Val(rand)
        /\ 0 <= sent[n].temperature /\ sent[n].temperature < 200
        /\ sent[n].presence_penalty = 4 * Val(rand) - 200
        /\ -200 <= sent[n].presence_penalty /\ sent[n].presence_penalty <= 200

(* A session built with rand 1 has sent a request with temperature 1.99 and
   presence penalty 2. *)
C29_Witness ==
    /\ rand = Some(100) /\ Len(sent) > 0
    /\ sent[1].temperature = 199 /\ sent[1].presence_penalty = 200

\* C30: building a session with a rand below 0 or above 1 raises the
\* validation error and leaves the caller without session; with any rand from
\* 0 to 1, both included, it gives a session with that rand.
C30_RandOutsideRejected ==
    init_ret.made =>
        /\ (init_ret.rand < 0 \/ init_ret.rand > 100) =>
              init_ret.err = "ValueError" /\ rand = None /\ sent = << >>
        /\ (0 <= init_ret.rand /\ init_ret.rand <= 100) =>
              init_ret.err = "" /\ rand = Some(init_ret.rand)

(* The caller has tried to build a session with rand 1.01 and has none. *)
C30_Witness ==
    init_ret.made /\ init_ret.rand = 101 /\ init_ret.err = "ValueError" /\ rand = None

(***************************************************************************)
(* The extractors (SpecExtract).                                           *)
(***************************************************************************)
(* The field of a reply record that the extractor op gives. *)
FieldOf(chat_record, op) ==
    CASE op = "text" -> chat_record.content
      [] op = "token" -> chat_record.token
      [] op = "web" -> chat_record.web
      [] op = "think" -> chat_record.think

\* C28: of the extractor calls made on one response object, in whatever
\* order, each call of extract_response_text, _token, _web or _think has
\* returned the value the field has in the record extract_response_record
\* returned, and two calls of the same extractor have returned the same
\* value, a citation's site included.
C28_ExtractorsPure ==
    \A i, j \in 1..Len(extracts) :
        /\ ( extracts[i].op = "record" /\ extracts[j].op # "record" ) =>
               extracts[j].val = FieldOf(extracts[i].val, extracts[j].op)
        /\ ( extracts[i].op = extracts[j].op ) => extracts[j].val = extracts[i].val

(***************************************************************************)
(* A line source without data line (SpecFail).                             *)
(***************************************************************************)
\* C31: a streaming chat() whose line source ends without a data line, the
\* lines before its end being skipped, raises the protocol error itself: the
\* caller gets no generator, the list of the key gets no user record and no
\* reply record, and no row is inserted.
C31_NoDataLineFailsInChat ==
    [][ \A c \in Calls :
            ( ChatStep(c) /\ chat_ret'.a.stream /\ chat_ret'.source = "nodata" ) =>
            /\ chat_ret'.kind = "raise" /\ chat_ret'.err = "AssertionError"
            /\ ~calls'[c].live
            /\ sink' = sink
            /\ \A k \in DOMAIN data' : IsSuffix(data'[k], Stored(data, k)) ]_vars

(* A streaming chat() with key "A", which held two records, has found no
   data line: it has raised and the key holds the same two records. *)
C31_Witness ==
    /\ chat_ret.call # 0 /\ chat_ret.a.stream /\ chat_ret.source = "nodata"
    /\ chat_ret.a.index = Some("A") /\ chat_ret.err = "AssertionError"
    /\ hist_ret.op = "chat" /\ hist_ret.before = 2
    /\ Len(data["A"]) = 2 /\ ~calls[chat_ret.call].live

(***************************************************************************)
(* The response time of a streamed call (SpecTimes).                       *)
(***************************************************************************)
\* C32: the response_time in the row of a streaming chat() is not earlier
\* than the time at which the last line of its source was pulled.
C32_ResponseTimeAfterStream ==
    \A i \in 1..Len(sink) :
        sink[i].by = 1 => Val(sink[i].row.response_time) >= seen[1].pulled_at

(***************************************************************************)
(* A data line with usage and without output (SpecUsage).                  *)
(***************************************************************************)
\* C33: when generator_text reads a data line that carries a usage block and
\* no output, citations captured or not, it does not raise and yields
\* nothing: the record's token is the usage of the line, its content is
\* unchanged, and the generator goes on to the next line.
C33_UsageOnlyLineSkipped ==
    [][ ( G1.live /\ G1.running = "text" /\ calls'[1].consumed > G1.consumed ) =>
            /\ pull_ret'.kind = "running"
            /\ calls'[1].running = "text"
            /\ calls'[1].chat_record_reply.content = G1.chat_record_reply.content
            /\ calls'[1].chat_record_reply.token # None
            /\ calls'[1].chat_record_reply.token =
                   extract_response_token([ NoJson EXCEPT !.usage = seen'[1].usage ]) ]_vars

(***************************************************************************)
(* generator_text after the ordering error (SpecStream).                   *)
(***************************************************************************)
\* C34: once generator_text has raised the error of the ordering check, it
\* stays closed: every later next() on it stops at once, yielding nothing,
\* reading no line and inserting no row, also after generator_think has
\* been read to its end.
C34_TextClosedAfterOrderingError ==
    [][ seen[1].end.text = "AssertionError" =>
            /\ calls'[1].pc.text = "closed"
            /\ calls'[1].running # "text"
            /\ seen'[1].end.text = "AssertionError"
            /\ ( pull_ret'.mode = "text" /\ pull_ret' # pull_ret ) =>
                   /\ pull_ret'.kind = "stop"
                   /\ calls'[1].consumed = G1.consumed
                   /\ sink' = sink ]_vars

(* generator_text has raised the ordering error, generator_think has then
   been read to its break, and a next() on generator_text has stopped. *)
C34_Witness ==
    /\ seen[1].end.text = "AssertionError" /\ seen[1].end.think = "break"
    /\ G1.is_think_emptied
    /\ pull_ret.mode = "text" /\ pull_ret.kind = "stop"

(***************************************************************************)
(* The reply record while the generators run (SpecStream).                 *)
(***************************************************************************)
\* C35: in every state of a streaming call, whatever its first data line and
\* the order of the pulls on its two generators, the len of the reply record
\* is the number of characters of its content.
C35_LenIsContentLength ==
    G1.live =>
        /\ G1.chat_record_reply.content # None
        /\ G1.chat_record_reply.len = Some(Len(Val(G1.chat_record_reply.content)))

(***************************************************************************)
(* What the generators have yielded (SpecReply).                           *)
(***************************************************************************)
\* C36: when generator_text has read its line source to the end, in whatever
\* order the two generators were pulled, the content of the reply record is
\* the elements generator_text has yielded, joined in order, and its think
\* is the elements generator_think has yielded, joined in order.
C36_RecordIsWhatWasYielded ==
    ( TextDrained /\ calls[1].index # None ) =>
        /\ calls[1].chat_record_reply.content = Some(seen[1].yielded.text)
        /\ calls[1].chat_record_reply.think = Some(seen[1].yielded.think)

(***************************************************************************)
(* Properties of the crawl table and its pollers (rbrowser.py).            *)
(***************************************************************************)
\* The ids of the rows that wait.
Waiting(t) == { i \in DOMAIN t : t[i].status = "wait" }

\* task_table holds each of ids once, in ascending create_time.
AscendingOf(t, task_table, ids) ==
    /\ Len(task_table) = Cardinality(ids)
    /\ { task_table[n] : n \in DOMAIN task_table } = ids
    /\ \A m, n \in DOMAIN task_table :
          m < n => t[task_table[m]].create_time <= t[task_table[n]].create_time

\* C37: with a single poller, a pass selects exactly the tasks that are WAIT
\* at its selection, in ascending create_time, and handles them in that
\* order; the task it handles goes from WAIT to SUCCESS when its request
\* returned and to FAIL when it raised; a task that is SUCCESS, FAIL or
\* CANCEL is never selected or modified again.
C37_SinglePollerPass ==
    [][ /\ (pollers[1].queue = << >> /\ pollers'[1] # pollers[1])
            => /\ AscendingOf(tasks, pollers'[1].selected, Waiting(tasks))
               /\ pollers'[1].queue = pollers'[1].selected
               /\ tasks' = tasks
        /\ (pollers[1].queue # << >> /\ pollers'[1] # pollers[1])
            => LET id_ == Head(pollers[1].queue)
               IN  /\ tasks[id_].status = "wait"
                   /\ pollers'[1].last.id = id_
                   /\ tasks'[id_].status
                        = IF pollers'[1].last.ok THEN "success" ELSE "fail"
                   /\ \A i \in DOMAIN tasks : i # id_ => tasks'[i] = tasks[i]
        /\ pollers'[1].handled \o pollers'[1].queue = pollers'[1].selected
        /\ \A i \in DOMAIN tasks :
              tasks[i].status \in { "success", "fail", "cancel" } => tasks'[i] = tasks[i]
      ]_vars

\* A pass has handled two tasks, one request having returned and the other
\* raised, in the order of the selection.
C37_Witness ==
    /\ Len(pollers[1].handled) = 2
    /\ pollers[1].queue = << >>
    /\ { tasks[i].status : i \in DOMAIN tasks } = { "success", "fail" }
    /\ \A i \in DOMAIN tasks : tasks[i].crawls = 1

\* C38: with two pollers on one table, or a task written by another user
\* between a poller's selection and its update, each task is crawled at most
\* once and a status that has left WAIT is never overwritten by a poller.
C38_CrawledOnceNeverOverwritten ==
    [][ \A i \in DOMAIN tasks :
          /\ tasks'[i].crawls <= 1
          /\ (tasks[i].status # "wait" /\ pollers' # pollers)
                => tasks'[i].status = tasks[i].status
      ]_vars

\* C39: wait_db_crawl_task returns the html of the task only at a poll that
\* finds its status SUCCESS; it raises AssertionError at a poll that finds no
\* record of the id; on a task that is FAIL or CANCEL (or still WAIT) it goes
\* on polling, and raises TimeoutError once the time spent exceeds timeout.
C39_WaitReturnsOnlyOnSuccess ==
    [][ LET id_ == waiter.record_id
            spent == clock - waiter.start
        IN  /\ (waiter.pc # "done" /\ waiter'.pc = "done" /\ waiter'.ret.kind = "return")
                => /\ waiter.pc = "select"
                   /\ id_ \in DOMAIN tasks
                   /\ tasks[id_].status = "success"
                   /\ waiter'.ret.html = tasks[id_].html
            /\ (waiter.pc = "select" /\ waiter' # waiter /\ id_ \notin DOMAIN tasks)
                => (waiter'.pc = "done" /\ waiter'.ret.err = "AssertionError")
            /\ (waiter.pc = "select" /\ waiter' # waiter /\ id_ \in DOMAIN tasks)
                => /\ waiter'.ret.kind # "raise"
                   /\ tasks[id_].status # "success" => waiter'.pc = "check"
            /\ (waiter.pc = "check" /\ waiter' # waiter)
                => IF spent > waiter.timeout
                   THEN waiter'.pc = "done" /\ waiter'.ret.err = "TimeoutError"
                   ELSE waiter'.pc = "select"
      ]_vars

\* The caller waited on a task that failed or was cancelled, polled it more
\* than once and got TimeoutError after more than its timeout of 1.
C39_Witness ==
    /\ waiter.pc = "done"
    /\ waiter.ret.err = "TimeoutError"
    /\ waiter.timeout = 1
    /\ clock - waiter.start > 1
    /\ waiter.record_id \in DOMAIN tasks
    /\ tasks[waiter.record_id].status \in { "fail", "cancel" }

\* The caller is in its loop on a task that is SUCCESS, and the time spent
\* since the call is still less than its timeout.
WaitingOnSuccess ==
    /\ waiter.pc \in { "select", "check" }
    /\ waiter.record_id \in DOMAIN tasks
    /\ tasks[waiter.record_id].status = "success"
    /\ clock - waiter.start < waiter.timeout

\* The call has returned the html of its task.
ReturnedHtml ==
    /\ waiter.pc = "done"
    /\ waiter.ret.kind = "return"
    /\ waiter.ret.html = tasks[waiter.record_id].html

\* Every task that waits is eventually SUCCESS or FAIL.
EveryTaskHandled ==
    \A i \in 1..MaxTasks :
        (i \in DOMAIN tasks /\ tasks[i].status = "wait")
            ~> (i \in DOMAIN tasks /\ tasks[i].status \in { "success", "fail" })

\* C40: with one poller whose steps are fair and whose requests all end,
\* every task added with status WAIT eventually reaches SUCCESS or FAIL, and a
\* caller waiting on a task that reaches SUCCESS before its timeout is spent
\* eventually gets the html of that task.
C40_TasksHandledWaiterReturns ==
    /\ EveryTaskHandled
    /\ WaitingOnSuccess ~> ReturnedHtml


====
